---- MODULE Spec2Model ----
(***************************************************************************)
(* Azure AI Travel Agents (Python API): the MCP tool registry's fan-out    *)
(* discovery (ToolRegistry.list_tools), the tool-loading loop of           *)
(* TravelWorkflowOrchestrator.initialize over MCPToolLoader.get_tools, the *)
(* event-streaming bridge (MagenticTravelOrchestrator                      *)
(* .process_request_stream and the /api/chat event generators), and two    *)
(* concurrent invocations of list_tools and of process_request_stream,     *)
(* modelled from the sources under src/.                                   *)
(***************************************************************************)
EXTENDS Integers, Sequences, FiniteSets, TLC

----------------------------------------------------------------------------
(* Bounds *)

MaxServers == 3

MaxEvents == 2

MaxChunks == 1

MaxRuns == 2

Min(a, b) == IF a < b THEN a ELSE b

----------------------------------------------------------------------------
(* ServerRegistry: tool_config.MCP_TOOLS_CONFIG and ToolRegistry metadata *)

\* Keys of MCP_TOOLS_CONFIG in dictionary (insertion) order.
MCP_TOOLS_CONFIG == <<"echo-ping", "customer-query", "itinerary-planning">>

\* The servers configured in a run of the model (a prefix of the config).
ConfigOrder == SubSeq(MCP_TOOLS_CONFIG, 1, Min(MaxServers, Len(MCP_TOOLS_CONFIG)))

Servers == {ConfigOrder[i] : i \in 1..Len(ConfigOrder)}

\* ToolRegistry._initialize_metadata: the metadata stored for a server id.
ServerMetadata(s) ==
    [id |-> s, type |-> "http", selected |-> (s # "echo-ping")]

\* The tool objects a server reports in its catalog (MCPStreamableHTTPTool._tools
\* after a successful connection), in server-reported order.  has_metadata is
\* hasattr(tool, 'metadata'), name and description are the fields of that
\* metadata, str is str(tool), and broken marks a metadata that cannot be read.
Tool(name, description) ==
    [name |-> name, description |-> description, has_metadata |-> TRUE,
     str |-> name, broken |-> FALSE]

\* A tool object that has no metadata attribute.
BareTool(str) ==
    [name |-> "", description |-> "", has_metadata |-> FALSE, str |-> str,
     broken |-> FALSE]

Catalog(s) ==
    CASE s = "echo-ping"          -> <<Tool("echo", "Echoes the input")>>
      [] s = "customer-query"     -> <<Tool("analyze_customer_query", "Analyzes a customer query"),
                                       Tool("lookup_customer", "Looks up a customer")>>
      [] OTHER                    -> <<BareTool("plan_itinerary")>>

\* What the remote server does when probed.
\*   ok        : connects, catalog loads, connection closes
\*   refuse    : the connection attempt raises (ConnectionError)
\*   badtool   : connects, but reading a tool's metadata raises
\*   closefail : connects and lists, but closing the connection raises
\*   hang      : the connection attempt never completes
Behaviours == {"ok", "refuse", "badtool", "closefail", "hang"}

\* The _tools list the MCP tool holds once connected, for a behaviour.
LoadedTools(s, b) ==
    IF b = "badtool"
      THEN Catalog(s) \o <<[Tool("corrupt", "") EXCEPT !.broken = TRUE]>>
      ELSE Catalog(s)

NoError == "none"

\* Python's None: the sentinel run_workflow puts on the queue when it ends,
\* and what a lookup gives for a missing key.
None == [type |-> "None"]

\* ToolRegistry.get_server_metadata: the stored metadata, or None.
GetServerMetadata(s, metadata) ==
    IF s \in metadata THEN ServerMetadata(s) ELSE None

\* check_server_and_list_tools: the initial server_info dictionary.
InitialServerInfo(s) ==
    [id |-> s, reachable |-> FALSE, selected |-> ServerMetadata(s).selected,
     tools |-> << >>, error |-> NoError]

\* check_server_and_list_tools: the tool_info dictionary of one tool.
ToolInfo(tool) ==
    [name        |-> IF tool.has_metadata THEN tool.name ELSE tool.str,
     description |-> IF tool.has_metadata THEN tool.description ELSE ""]

\* check_server_and_list_tools, lines 174-181: the loop that builds the local
\* tools_list from mcp_tool._tools; it raises when a tool's metadata cannot be
\* read, with tools_list holding what was converted before.
RECURSIVE ConvertTools(_)
ConvertTools(tools) ==
    IF tools = << >> THEN [raised |-> FALSE, tools |-> << >>]
    ELSE IF Head(tools).broken THEN [raised |-> TRUE, tools |-> << >>]
    ELSE LET rest == ConvertTools(Tail(tools))
         IN [raised |-> rest.raised, tools |-> <<ToolInfo(Head(tools))>> \o rest.tools]

\* Mutant: each converted tool is stored in server_info as soon as it is built.
StoredAsBuilt(conv, old) == conv.tools

\* check_server_and_list_tools, line 183: server_info["tools"] is assigned
\* after the loop, so only when the loop did not raise.
StoredTools(conv, old) == IF conv.raised THEN old ELSE conv.tools

----------------------------------------------------------------------------
VARIABLES
    server_metadata,   \* ToolRegistry._server_metadata: ids currently stored
    behav,             \* what each remote server does in this run
    lt_pc,             \* position of the list_tools call
    lt_tasks,          \* list_tools' local `tasks`: server ids in creation order
    task_st,           \* state of each probe task
    task_cancel,       \* cancellation requested for the probe task
    task_exc,          \* exception travelling through the probe's __aexit__
    mcp_tool,          \* each probe's local mcp_tool: "unset", "None" or "tool"
    server_info,       \* each probe's local server_info dictionary
    deadline,          \* the wait_for timer of list_tools
    lt_result,         \* the 'tools' list returned by list_tools
    lt_exc             \* the exception list_tools raised to its caller

toolVars == <<server_metadata, behav, lt_pc, lt_tasks, task_st, task_cancel,
              task_exc, mcp_tool, server_info, deadline, lt_result, lt_exc>>

VARIABLES
    api,               \* which /api/chat is deployed: packages/ (Magentic) or src/ (triage)
    chat_client,       \* orchestrator's client (chat_client / llm_client) is set
    wf_script,         \* the events the workflow emits in this run, in order
    wf_end,            \* how the workflow ends once its events are emitted
    wf_i,              \* number of events the workflow has emitted so far
    wf_task,           \* state of the background workflow_task
    event_queue,       \* the asyncio.Queue between run_workflow and the generator
    workflow_done,     \* process_request_stream's local flag
    workflow_error,    \* process_request_stream's local workflow_error
    gen_pc,            \* position of the process_request_stream generator
    out,               \* what process_request_stream has yielded to its consumer
    chat_pc,           \* position of chat.event_generator
    sse,               \* the envelopes event_generator has sent to the client
    result,            \* the triage agent's answer (src/ workflow), as characters
    chunk_i            \* loop variable i of the chunking loop (0-based offset)

streamVars == <<api, chat_client, wf_script, wf_end, wf_i, wf_task, event_queue,
                workflow_done, workflow_error, gen_pc, out, chat_pc, sse>>

triageVars == <<result, chunk_i>>

VARIABLES
    enabled_tools,     \* the list of server ids initialize is asked to load
    refusal,           \* the exception class a refused connection raises in this run
    load_pc,           \* position of TravelWorkflowOrchestrator.initialize
    load_i,            \* index in enabled_tools of the current loop iteration
    load_run,          \* number of calls of initialize started so far
    load_cancel,       \* the iteration at which the startup timer cancelled initialize (0: none)
    loader_tools,      \* MCPToolLoader._tools of the wrapper kept for each server
    tools_by_server,   \* initialize's local tools_by_server dictionary
    all_tools,         \* TravelWorkflowOrchestrator.all_tools
    init_results,      \* all_tools and tools_by_server at the end of each call of initialize
    load_exc           \* the exception a call of initialize ended with

loadVars == <<enabled_tools, refusal, load_pc, load_i, load_run, load_cancel,
              loader_tools, tools_by_server, all_tools, init_results, load_exc>>

VARIABLES
    pair_op,           \* the operation that is invoked twice concurrently
    lt_calls,          \* the local state of each of two list_tools invocations
    st_calls           \* the local state of each of two process_request_stream invocations

pairVars == <<pair_op, lt_calls, st_calls>>

VARIABLES
    llm_client,        \* TravelWorkflowOrchestrator.llm_client is set
    triage_agent,      \* TravelWorkflowOrchestrator.triage_agent: "None", "created" or "ready"
    specialized_agents, \* the orchestrator's seven other agent attributes, each "None", "created" or "ready"
    init_pc,           \* position of the startup's call of initialize
    base_agent,        \* a BaseAgent of its own: its `agent` attribute is set
    llm_calls,         \* number of calls of ChatAgent.run made so far
    call_log,          \* the calls of process_request, process_request_stream, handoff_to_agent and process that have ended
    in_flight          \* the calls that have begun and are suspended, at a yield or at the LLM

callVars ==
    <<llm_client, triage_agent, specialized_agents, init_pc, base_agent, llm_calls,
      call_log, in_flight>>

vars == <<toolVars, streamVars, triageVars, loadVars, pairVars, callVars>>

TaskDone(st) == st \in {"done", "cancelled"}

\* Mutant: the wait ends without the children having finished (a wait that
\* abandons its tasks instead of awaiting their cancellation).
GatherAbandoned(tasks, st) == TRUE

\* asyncio.gather(*tasks): the outer future completes when every child has.
GatherDone(tasks, st) == \A i \in 1..Len(tasks) : TaskDone(st[tasks[i]])

\* Mutant: the timeout does not cancel the children (gather is shielded, or
\* simply awaited to the end).
WaitForShielded(tasks, st, cancel) == cancel

\* Cancelling the gather future cancels every child that is not done.
WaitForCancel(tasks, st, cancel) ==
    [s \in DOMAIN cancel |->
        IF (\E i \in 1..Len(tasks) : tasks[i] = s) /\ ~TaskDone(st[s])
          THEN TRUE ELSE cancel[s]]

\* Mutant: only the servers that answered are reported.
BuildReachableOnly(results) ==
    SelectSeq(results, LAMBDA r : r.kind = "dict" /\ r.value.reachable)

\* list_tools, lines 220-228: only dictionaries become entries of the list.
BuildToolsList(results) == SelectSeq(results, LAMBDA r : r.kind = "dict")

\* The value a finished probe task holds.
TaskResult(s, info) == [kind |-> "dict", value |-> info[s]]

\* list_tools, lines 208-218: the TimeoutError handler.  It walks `tasks` in
\* order: a finished task contributes its result, an unfinished one is
\* cancelled and contributes nothing; task.result() of a cancelled task raises
\* CancelledError, which `except Exception` does not catch, so it leaves
\* list_tools.
RECURSIVE TimeoutHandler(_, _, _, _)
TimeoutHandler(tasks, st, info, acc) ==
    IF tasks = << >>
      THEN acc
      ELSE LET s == Head(tasks) IN
           IF st[s] = "cancelled"
             THEN [acc EXCEPT !.raised = "CancelledError"]
             ELSE IF st[s] = "done"
               THEN TimeoutHandler(Tail(tasks), st, info,
                      [acc EXCEPT !.results = Append(@, TaskResult(s, info))])
               ELSE TimeoutHandler(Tail(tasks), st, info,
                      [acc EXCEPT !.cancel = @ \cup {s}])

----------------------------------------------------------------------------
(* ToolRegistry.list_tools and its probes *)

\* list_tools, lines 196-207: one task per registered server, then wait_for.
\* A request is served once the startup's initialize is over (main.py lifespan).
ListToolsStart ==
    /\ lt_pc = "idle"
    /\ load_pc \in {"idle", "done", "raised"}
    /\ lt_tasks' = SelectSeq(ConfigOrder, LAMBDA s : s \in server_metadata)
    /\ task_st' = [s \in Servers |->
                     IF s \in server_metadata THEN "created" ELSE task_st[s]]
    /\ deadline' = "armed"
    /\ lt_pc' = "waiting"
    /\ UNCHANGED <<streamVars, triageVars, loadVars, pairVars, callVars>>
    /\ UNCHANGED <<mcp_tool, server_metadata, behav, task_cancel, task_exc, server_info,
                   lt_result, lt_exc>>

\* ToolRegistry.create_mcp_tool: a fresh tool for a registered id, None (after
\* a warning) for an id the metadata table does not hold.
CreateMcpTool(s, metadata) == IF s \in metadata THEN "tool" ELSE "None"

\* check_server_and_list_tools, lines 148-168: first step of a probe task: the
\* server_info dictionary is built, and it is returned as it is when
\* create_mcp_tool gave no tool; otherwise the connection is attempted.
ProbeStart(s) ==
    /\ task_st[s] = "created"
    /\ ~task_cancel[s]
    /\ server_info' = [server_info EXCEPT ![s] = InitialServerInfo(s)]
    /\ mcp_tool' = [mcp_tool EXCEPT ![s] = CreateMcpTool(s, server_metadata)]
    /\ task_st' = [task_st EXCEPT ![s] =
                     IF mcp_tool'[s] = "None" THEN "done" ELSE "connecting"]
    /\ UNCHANGED <<streamVars, triageVars, loadVars, pairVars, callVars>>
    /\ UNCHANGED <<server_metadata, behav, lt_pc, lt_tasks, task_cancel,
                   task_exc, deadline, lt_result, lt_exc>>

\* check_server_and_list_tools, lines 168-192: __aenter__ completes.
ProbeConnected(s) ==
    /\ task_st[s] = "connecting"
    /\ ~task_cancel[s]
    /\ behav[s] # "hang"
    /\ IF behav[s] = "refuse"
         THEN /\ server_info' = [server_info EXCEPT ![s].error = "ConnectionError"]
              /\ task_st' = [task_st EXCEPT ![s] = "done"]
              /\ UNCHANGED task_exc
         ELSE LET conv == ConvertTools(LoadedTools(s, behav[s])) IN
              /\ server_info' = [server_info EXCEPT
                                   ![s].reachable = TRUE,
                                   ![s].tools = StoredTools(conv, @)]
              /\ task_exc' = [task_exc EXCEPT ![s] =
                                IF conv.raised THEN "AttributeError" ELSE NoError]
              /\ task_st' = [task_st EXCEPT ![s] = "closing"]
    /\ UNCHANGED <<streamVars, triageVars, loadVars, pairVars, callVars>>
    /\ UNCHANGED <<mcp_tool, server_metadata, behav, lt_pc, lt_tasks, task_cancel,
                   deadline, lt_result, lt_exc>>

\* check_server_and_list_tools, lines 168-194: __aexit__ completes.
ProbeClosed(s) ==
    /\ task_st[s] = "closing"
    /\ ~task_cancel[s]
    /\ LET exc == IF task_exc[s] # NoError THEN task_exc[s]
                  ELSE IF behav[s] = "closefail" THEN "CloseError" ELSE NoError
       IN server_info' = [server_info EXCEPT ![s].error = exc]
    /\ task_st' = [task_st EXCEPT ![s] = "done"]
    /\ UNCHANGED <<streamVars, triageVars, loadVars, pairVars, callVars>>
    /\ UNCHANGED <<mcp_tool, server_metadata, behav, lt_pc, lt_tasks, task_cancel,
                   task_exc, deadline, lt_result, lt_exc>>

\* A probe task whose cancellation was requested gets CancelledError at its
\* await; `except Exception` (line 190) does not catch it.
ProbeCancelled(s) ==
    /\ task_cancel[s]
    /\ ~TaskDone(task_st[s])
    /\ task_st[s] # "none"
    /\ task_st' = [task_st EXCEPT ![s] = "cancelled"]
    /\ UNCHANGED <<streamVars, triageVars, loadVars, pairVars, callVars>>
    /\ UNCHANGED <<mcp_tool, server_metadata, behav, lt_pc, lt_tasks, task_cancel,
                   task_exc, server_info, deadline, lt_result, lt_exc>>

\* The 10 second timer of asyncio.wait_for (line 206) expires.
DeadlineFires ==
    /\ lt_pc = "waiting"
    /\ deadline = "armed"
    /\ deadline' = "fired"
    /\ UNCHANGED <<streamVars, triageVars, loadVars, pairVars, callVars>>
    /\ UNCHANGED <<mcp_tool, server_metadata, behav, lt_pc, lt_tasks, task_st,
                   task_cancel, task_exc, server_info, lt_result, lt_exc>>

\* list_tools, lines 204-207 and 220-228: gather completed, wait_for returns
\* its results and the list is built.
ListToolsGathered ==
    /\ lt_pc = "waiting"
    /\ GatherDone(lt_tasks, task_st)
    /\ lt_result' = BuildToolsList(
                      [i \in 1..Len(lt_tasks) |-> TaskResult(lt_tasks[i], server_info)])
    /\ lt_pc' = "returned"
    /\ UNCHANGED <<streamVars, triageVars, loadVars, pairVars, callVars>>
    /\ UNCHANGED <<mcp_tool, server_metadata, behav, lt_tasks, task_st, task_cancel,
                   task_exc, server_info, deadline, lt_exc>>

\* wait_for resumes after the timer fired while gather is still pending: it
\* cancels gather (and so every unfinished child) and waits for it.
ListToolsTimeout ==
    /\ lt_pc = "waiting"
    /\ deadline = "fired"
    /\ ~GatherDone(lt_tasks, task_st)
    /\ task_cancel' = WaitForCancel(lt_tasks, task_st, task_cancel)
    /\ lt_pc' = "cancelling"
    /\ UNCHANGED <<streamVars, triageVars, loadVars, pairVars, callVars>>
    /\ UNCHANGED <<mcp_tool, server_metadata, behav, lt_tasks, task_st, task_exc,
                   server_info, deadline, lt_result, lt_exc>>

\* list_tools, lines 208-228: wait_for raises TimeoutError once the cancelled
\* gather has completed; the handler runs and list_tools ends.
ListToolsAfterTimeout ==
    /\ lt_pc = "cancelling"
    /\ GatherDone(lt_tasks, task_st)
    /\ LET h == TimeoutHandler(lt_tasks, task_st, server_info,
                               [raised |-> NoError, results |-> << >>, cancel |-> {}])
       IN /\ task_cancel' = [s \in Servers |-> task_cancel[s] \/ s \in h.cancel]
          /\ IF h.raised # NoError
               THEN /\ lt_exc' = h.raised
                    /\ lt_pc' = "raised"
                    /\ UNCHANGED lt_result
               ELSE /\ lt_result' = BuildToolsList(h.results)
                    /\ lt_pc' = "returned"
                    /\ UNCHANGED lt_exc
    /\ UNCHANGED <<streamVars, triageVars, loadVars, pairVars, callVars>>
    /\ UNCHANGED <<mcp_tool, server_metadata, behav, lt_tasks, task_st, task_exc,
                   server_info, deadline>>

\* ToolRegistry.close_all: clears the metadata table.
CloseAll ==
    /\ server_metadata # {}
    /\ server_metadata' = {}
    /\ UNCHANGED <<streamVars, triageVars, loadVars, pairVars, callVars>>
    /\ UNCHANGED <<mcp_tool, behav, lt_pc, lt_tasks, task_st, task_cancel, task_exc,
                   server_info, deadline, lt_result, lt_exc>>

----------------------------------------------------------------------------
(* MagenticTravelOrchestrator.process_request_stream (the event bridge) *)

Absent == "absent"

\* The kinds of a MagenticOrchestratorMessageEvent.
OrchestratorKinds == {"user_task", "task_ledger", "instruction", "notice", "message"}

\* _convert_workflow_event, line 340:
\* f"Orchestrator{event.kind.title().replace('_', '')}".
OrchestratorEventName(kind) ==
    CASE kind = "user_task"   -> "OrchestratorUserTask"
      [] kind = "task_ledger" -> "OrchestratorTaskLedger"
      [] kind = "instruction" -> "OrchestratorInstruction"
      [] kind = "notice"      -> "OrchestratorNotice"
      [] kind = "message"     -> "OrchestratorMessage"

\* _convert_workflow_event, lines 350 and 364: event.agent_id or "UnknownAgent"
\* ("" stands for an agent_id that is None or empty).
AgentIdOrUnknown(agent_id) == IF agent_id = "" THEN "UnknownAgent" ELSE agent_id

\* MagenticTravelOrchestrator._convert_workflow_event: the UI event of a
\* workflow event (its `event` name and `agent`), or None for the event
\* classes that are not surfaced.  `id` stands for the event's payload.
ConvertWorkflowEvent(e) ==
    LET ui(name, agent) == [type |-> "metadata", agent |-> agent, event |-> name,
                            id |-> e.id, message |-> Absent, statusCode |-> Absent,
                            data |-> "dict"]
    IN CASE e.cls = "MagenticOrchestratorMessageEvent"
                -> ui(OrchestratorEventName(e.kind), "Orchestrator")
         [] e.cls = "MagenticAgentDeltaEvent"
                -> ui("AgentDelta", AgentIdOrUnknown(e.agent_id))
         [] e.cls = "MagenticAgentMessageEvent"
                -> ui("AgentMessage", AgentIdOrUnknown(e.agent_id))
         [] e.cls = "MagenticFinalResultEvent"         -> ui("FinalResult", "null")
         [] e.cls = "WorkflowOutputEvent"              -> ui("WorkflowComplete", "null")
         [] OTHER                                      -> None

\* run_workflow, lines 213-223: the event queued for a ServiceResponseException
\* (message and statusCode are nested under "error", not at the top level).
ServiceErrorEvent ==
    [type |-> "error", agent |-> Absent, event |-> "ServiceError", id |-> 0,
     message |-> Absent, statusCode |-> Absent, data |-> Absent]

\* run_workflow lines 228-238 and process_request_stream lines 303-313: the
\* event for any other exception.
WorkflowErrorEvent ==
    [type |-> "error", agent |-> "null", event |-> "Error", id |-> 0,
     message |-> "Workflow error", statusCode |-> "500", data |-> "dict"]

\* The message the code uses for a ServiceResponseException.
ServiceUnavailable == "Request timed out or service unavailable. Please try again."

\* process_request_stream, lines 287-300: the event yielded for a
\* ServiceResponseException caught at the level of the generator.
OuterServiceErrorEvent ==
    [type |-> "error", agent |-> "null", event |-> "ServiceError", id |-> 0,
     message |-> ServiceUnavailable, statusCode |-> "504", data |-> "dict"]

\* The events a workflow can emit, with the way each is delivered: to the
\* on_event callback or as an item of workflow.run_stream.  kind is the kind
\* of an orchestrator message and agent_id the agent of an agent event ("" in
\* the classes that have none, and for an agent event without agent_id).
EventKinds ==
    { [via |-> "callback", cls |-> "MagenticOrchestratorMessageEvent",
       kind |-> "task_ledger", agent_id |-> ""],
      [via |-> "callback", cls |-> "MagenticAgentDeltaEvent",
       kind |-> "", agent_id |-> "ItineraryAgent"],
      [via |-> "callback", cls |-> "MagenticAgentMessageEvent",
       kind |-> "", agent_id |-> ""],
      [via |-> "callback", cls |-> "MagenticCallbackEvent",
       kind |-> "", agent_id |-> ""],
      [via |-> "stream",   cls |-> "WorkflowOutputEvent",
       kind |-> "", agent_id |-> ""],
      [via |-> "stream",   cls |-> "WorkflowStatusEvent",
       kind |-> "", agent_id |-> ""] }

\* The runs of a workflow: up to MaxEvents events, numbered in emission order.
Scripts ==
    UNION { { [i \in 1..n |-> [via |-> f[i].via, cls |-> f[i].cls,
                               kind |-> f[i].kind, agent_id |-> f[i].agent_id,
                               id |-> i]] :
                f \in [1..n -> EventKinds] } : n \in 0..MaxEvents }

\* How a run ends: the workflow completes, raises an exception, raises a
\* ServiceResponseException, or cannot even be built, because of an exception
\* or of a ServiceResponseException.
Endings == {"complete", "raise", "service", "buildfail", "servicebuild"}

\* process_request_stream, lines 287-313: the event of the outer handlers.
OuterErrorEvent(ending) ==
    IF ending = "servicebuild" THEN OuterServiceErrorEvent ELSE WorkflowErrorEvent

\* asyncio.Queue.put on the unbounded event_queue.
QueuePut(q, item) == Append(q, item)

\* on_event lines 143-145 and run_workflow lines 206-208: convert, and queue
\* the event when the conversion gave one.
PutConverted(q, e) ==
    LET event_data == ConvertWorkflowEvent(e)
    IN IF event_data # None THEN QueuePut(q, event_data) ELSE q

\* Mutant: the finally block is missing, so nothing signals completion.
NoFinally(q) == [queue |-> q, done |-> FALSE]

\* run_workflow, lines 240-242: the finally block.
RunWorkflowFinally(q) == [queue |-> QueuePut(q, None), done |-> TRUE]

\* Mutant: on a timeout with the workflow done, stop without draining.
AfterTimeoutNoDrain(done) == IF done THEN "break" ELSE "waiting"

\* process_request_stream, lines 259-267: what the TimeoutError handler does.
AfterTimeout(done) == IF done THEN "drain" ELSE "waiting"

\* process_request_stream, lines 262-265: the drain loop up to its next yield:
\* falsy items (the sentinel) are taken and skipped.
RECURSIVE DrainNext(_)
DrainNext(q) ==
    IF q = << >> THEN [found |-> FALSE, item |-> None, queue |-> q]
    ELSE IF Head(q) # None THEN [found |-> TRUE, item |-> Head(q), queue |-> Tail(q)]
    ELSE DrainNext(Tail(q))

\* `except Exception` (lines 278 and 301): CancelledError and GeneratorExit
\* derive from BaseException only.
IsException(exc) == exc \notin {"CancelledError", "GeneratorExit"}

\* process_request_stream, lines 278-285: the handler that cancels
\* workflow_task runs only for an Exception.
StopHandler(exc, task) ==
    IF IsException(exc) /\ task \in {"created", "running"} THEN "cancelled" ELSE task

\* process_request_stream, line 270: `await workflow_task` after the loop ends
\* the generator normally, or raises the CancelledError of a cancelled task.
AwaitWorkflowTask(task) == IF task = "cancelled" THEN "cancelled" ELSE "ended"

----------------------------------------------------------------------------
(* packages/api-python main.py: chat.event_generator over the Magentic stream *)

\* event_generator, lines 174-178.
StartEnvelope ==
    [type |-> "metadata", agent |-> Absent, event |-> "WorkflowStarted", id |-> 0,
     data |-> "dict", inner |-> Absent, errorStatus |-> Absent,
     errorMessage |-> Absent]

\* event_generator, lines 203-208.
CompleteEnvelope ==
    [type |-> "metadata", agent |-> "TravelPlanningWorkflow", event |-> "Complete",
     id |-> 0, data |-> "dict", inner |-> Absent, errorStatus |-> Absent,
     errorMessage |-> Absent]

\* event_generator, lines 214-228.
GeneralErrorEnvelope ==
    [type |-> "metadata", agent |-> Absent, event |-> "<event>", id |-> 0,
     data |-> Absent, inner |-> "Error", errorStatus |-> "500",
     errorMessage |-> "An error occurred: <exception>"]

\* event_generator, lines 186-198: an internal error event is wrapped (its
\* statusCode defaults to 500); any other event is passed through.
WrapInternalEvent(ev) ==
    IF ev.type = "error"
      THEN [type |-> "metadata", agent |-> Absent, event |-> "<event>", id |-> ev.id,
            data |-> Absent, inner |-> ev.event,
            errorStatus |-> IF ev.statusCode = Absent THEN "500" ELSE ev.statusCode,
            errorMessage |-> IF ev.message = Absent THEN "An error occurred"
                             ELSE ev.message]
      ELSE [type |-> ev.type, agent |-> ev.agent, event |-> ev.event, id |-> ev.id,
            data |-> ev.data, inner |-> Absent, errorStatus |-> Absent,
            errorMessage |-> Absent]

\* event_generator, lines 170-179: the start event is sent.
ChatStart ==
    /\ api = "packages"
    /\ chat_pc = "idle"
    /\ sse' = Append(sse, StartEnvelope)
    /\ chat_pc' = "streaming"
    /\ UNCHANGED <<toolVars, triageVars, loadVars, pairVars, callVars>>
    /\ UNCHANGED <<api, chat_client, wf_script, wf_end, wf_i, wf_task, event_queue,
                   workflow_done, workflow_error, gen_pc, out>>

\* MagenticTravelOrchestrator.initialize, lines 58-65.
Initialize ==
    /\ api = "packages"
    /\ chat_pc = "idle"
    /\ ~chat_client
    /\ chat_client' = TRUE
    /\ UNCHANGED <<toolVars, triageVars, loadVars, pairVars, callVars>>
    /\ UNCHANGED <<api, wf_script, wf_end, wf_i, wf_task, event_queue,
                   workflow_done, workflow_error, gen_pc, out, chat_pc, sse>>

\* process_request_stream, lines 85-86, 134-197 and 244-251 (first pull), with
\* the outer handlers of lines 287-313 for a workflow that cannot be built.
GenStart ==
    /\ api = "packages"
    /\ chat_pc = "streaming"
    /\ gen_pc = "unstarted"
    /\ IF ~chat_client
         THEN /\ gen_pc' = "raised"
              /\ UNCHANGED <<wf_task, out, sse>>
         ELSE IF wf_end \in {"buildfail", "servicebuild"}
           THEN /\ out' = Append(out, OuterErrorEvent(wf_end))
                /\ sse' = Append(sse, WrapInternalEvent(OuterErrorEvent(wf_end)))
                /\ gen_pc' = "error_yielded"
                /\ UNCHANGED wf_task
           ELSE /\ wf_task' = "created"
                /\ gen_pc' = "waiting"
                /\ UNCHANGED <<out, sse>>
    /\ UNCHANGED <<toolVars, triageVars, loadVars, pairVars, callVars>>
    /\ UNCHANGED <<api, chat_client, wf_script, wf_end, wf_i, event_queue,
                   workflow_done, workflow_error, chat_pc>>

\* run_workflow, lines 200-205: the event loop runs the first step of the task
\* made by create_task (line 245): run_workflow enters its try block and
\* calls workflow.run_stream.
RunWorkflowStart ==
    /\ wf_task = "created"
    /\ wf_task' = "running"
    /\ UNCHANGED <<toolVars, triageVars, loadVars, pairVars, callVars>>
    /\ UNCHANGED <<api, chat_client, wf_script, wf_end, wf_i, event_queue,
                   workflow_done, workflow_error, gen_pc, out, chat_pc, sse>>

\* on_event, lines 141-146: the workflow delivers an event to the callback.
OnEvent ==
    /\ wf_task = "running"
    /\ wf_i < Len(wf_script)
    /\ wf_script[wf_i + 1].via = "callback"
    /\ event_queue' = PutConverted(event_queue, wf_script[wf_i + 1])
    /\ wf_i' = wf_i + 1
    /\ UNCHANGED <<toolVars, triageVars, loadVars, pairVars, callVars>>
    /\ UNCHANGED <<api, chat_client, wf_script, wf_end, wf_task, workflow_done,
                   workflow_error, gen_pc, out, chat_pc, sse>>

\* run_workflow, lines 205-208: workflow.run_stream yields an event.
RunStreamEvent ==
    /\ wf_task = "running"
    /\ wf_i < Len(wf_script)
    /\ wf_script[wf_i + 1].via = "stream"
    /\ event_queue' = PutConverted(event_queue, wf_script[wf_i + 1])
    /\ wf_i' = wf_i + 1
    /\ UNCHANGED <<toolVars, triageVars, loadVars, pairVars, callVars>>
    /\ UNCHANGED <<api, chat_client, wf_script, wf_end, wf_task, workflow_done,
                   workflow_error, gen_pc, out, chat_pc, sse>>

\* run_workflow, lines 203-242: run_stream ends or raises; the handlers queue
\* the error event, and the finally block sets workflow_done and queues None.
RunWorkflowEnd ==
    /\ wf_task = "running"
    /\ wf_i = Len(wf_script)
    /\ LET q == CASE wf_end = "service" -> QueuePut(event_queue, ServiceErrorEvent)
                  [] wf_end = "raise"   -> QueuePut(event_queue, WorkflowErrorEvent)
                  [] OTHER              -> event_queue
           f == RunWorkflowFinally(q)
       IN /\ event_queue' = f.queue
          /\ workflow_done' = f.done
    /\ workflow_error' = CASE wf_end = "service" -> "ServiceResponseException"
                           [] wf_end = "raise"   -> "Exception"
                           [] OTHER              -> NoError
    /\ wf_task' = "done"
    /\ UNCHANGED <<toolVars, triageVars, loadVars, pairVars, callVars>>
    /\ UNCHANGED <<api, chat_client, wf_script, wf_end, wf_i, gen_pc, out,
                   chat_pc, sse>>

\* process_request_stream, lines 251-257 and 270: the get completes; None ends
\* the loop, any other item is yielded (and forwarded by event_generator).
GenGet ==
    /\ api = "packages"
    /\ chat_pc = "streaming"
    /\ gen_pc \in {"waiting", "timedout"}
    /\ event_queue # << >>
    /\ event_queue' = Tail(event_queue)
    /\ IF Head(event_queue) = None
         THEN /\ gen_pc' = AwaitWorkflowTask(wf_task)
              /\ UNCHANGED <<out, sse>>
         ELSE /\ out' = Append(out, Head(event_queue))
              /\ sse' = Append(sse, WrapInternalEvent(Head(event_queue)))
              /\ gen_pc' = "yielded"
    /\ UNCHANGED <<toolVars, triageVars, loadVars, pairVars, callVars>>
    /\ UNCHANGED <<api, chat_client, wf_script, wf_end, wf_i, wf_task,
                   workflow_done, workflow_error, chat_pc>>

\* The consumer asks for the next item: the generator goes back to wait_for.
GenResume ==
    /\ api = "packages"
    /\ chat_pc = "streaming"
    /\ gen_pc = "yielded"
    /\ gen_pc' = "waiting"
    /\ UNCHANGED <<toolVars, triageVars, loadVars, pairVars, callVars>>
    /\ UNCHANGED <<api, chat_client, wf_script, wf_end, wf_i, wf_task, event_queue,
                   workflow_done, workflow_error, out, chat_pc, sse>>

\* The 0.1 s timer of wait_for (line 251) expires on an empty queue; the
\* first step of the task, scheduled at create_task, comes before the timer.
GenTimeout ==
    /\ api = "packages"
    /\ chat_pc = "streaming"
    /\ gen_pc = "waiting"
    /\ wf_task # "created"
    /\ event_queue = << >>
    /\ gen_pc' = "timedout"
    /\ UNCHANGED <<toolVars, triageVars, loadVars, pairVars, callVars>>
    /\ UNCHANGED <<api, chat_client, wf_script, wf_end, wf_i, wf_task, event_queue,
                   workflow_done, workflow_error, out, chat_pc, sse>>

\* The drain loop (lines 262-266) runs to its next yield, or to its end and
\* then to the end of the generator (line 270).
DrainStep ==
    LET d == DrainNext(event_queue) IN
    /\ event_queue' = d.queue
    /\ IF d.found
         THEN /\ out' = Append(out, d.item)
              /\ sse' = Append(sse, WrapInternalEvent(d.item))
              /\ gen_pc' = "drain_yielded"
         ELSE /\ gen_pc' = AwaitWorkflowTask(wf_task)
              /\ UNCHANGED <<out, sse>>

\* process_request_stream, lines 259-267: wait_for raised TimeoutError.
GenAfterTimeout ==
    /\ api = "packages"
    /\ chat_pc = "streaming"
    /\ gen_pc = "timedout"
    /\ LET next == AfterTimeout(workflow_done) IN
       CASE next = "drain" -> DrainStep
         [] next = "break" -> /\ gen_pc' = AwaitWorkflowTask(wf_task)
                              /\ UNCHANGED <<event_queue, out, sse>>
         [] OTHER          -> /\ gen_pc' = "waiting"
                              /\ UNCHANGED <<event_queue, out, sse>>
    /\ UNCHANGED <<toolVars, triageVars, loadVars, pairVars, callVars>>
    /\ UNCHANGED <<api, chat_client, wf_script, wf_end, wf_i, wf_task,
                   workflow_done, workflow_error, chat_pc>>

\* The consumer asks for the next item while the generator is draining.
GenDrainResume ==
    /\ api = "packages"
    /\ chat_pc = "streaming"
    /\ gen_pc = "drain_yielded"
    /\ DrainStep
    /\ UNCHANGED <<toolVars, triageVars, loadVars, pairVars, callVars>>
    /\ UNCHANGED <<api, chat_client, wf_script, wf_end, wf_i, wf_task,
                   workflow_done, workflow_error, chat_pc>>

\* process_request_stream, lines 301-313: after the error event of the outer
\* handler the generator ends.
GenErrorResume ==
    /\ api = "packages"
    /\ chat_pc = "streaming"
    /\ gen_pc = "error_yielded"
    /\ gen_pc' = "ended"
    /\ UNCHANGED <<toolVars, triageVars, loadVars, pairVars, callVars>>
    /\ UNCHANGED <<api, chat_client, wf_script, wf_end, wf_i, wf_task, event_queue,
                   workflow_done, workflow_error, out, chat_pc, sse>>

\* The consumer stops before the stream has ended.  At a yield, its own or
\* one it forwards, event_generator is closed (GeneratorExit at lines 179 and
\* 198): the response is over, and process_request_stream, if it was created,
\* is only abandoned where it is suspended.  At an await the task of the
\* response is cancelled: CancelledError is raised inside
\* process_request_stream (line 251), which it leaves, and then leaves
\* event_generator; lines 278-285 decide what happens to workflow_task.
ClientDisconnect(exc) ==
    /\ api = "packages"
    /\ chat_pc = "streaming"
    /\ \/ /\ exc = "GeneratorExit"
          /\ gen_pc \in {"unstarted", "yielded", "drain_yielded", "error_yielded"}
          /\ UNCHANGED <<gen_pc, wf_task>>
       \/ /\ exc = "CancelledError"
          /\ gen_pc \in {"waiting", "timedout"}
          /\ wf_task' = StopHandler(exc, wf_task)
          /\ gen_pc' = "closed"
    /\ chat_pc' = "aborted"
    /\ UNCHANGED <<toolVars, triageVars, loadVars, pairVars, callVars>>
    /\ UNCHANGED <<api, chat_client, wf_script, wf_end, wf_i, event_queue,
                   workflow_done, workflow_error, out, sse>>

\* The abandoned process_request_stream is closed by the task the event loop
\* schedules for it (aclose), after other callbacks have had their turn:
\* GeneratorExit is raised at the yield where it is suspended (lines 257 and
\* 266 inside the try of lines 248-285, the error events outside of it).
GenAclose ==
    /\ api = "packages"
    /\ chat_pc = "aborted"
    /\ gen_pc \in {"yielded", "drain_yielded", "error_yielded"}
    /\ wf_task' = IF gen_pc = "error_yielded"
                    THEN wf_task ELSE StopHandler("GeneratorExit", wf_task)
    /\ gen_pc' = "closed"
    /\ UNCHANGED <<toolVars, triageVars, loadVars, pairVars, callVars>>
    /\ UNCHANGED <<api, chat_client, wf_script, wf_end, wf_i, event_queue,
                   workflow_done, workflow_error, out, chat_pc, sse>>

\* What the cancellation of workflow_task does to the queue and to
\* workflow_done.  A task cancelled before its first step never enters
\* run_workflow: the try/finally of lines 203-242 does not run.  In a task
\* that has started, CancelledError is raised at the await of lines 205-208,
\* passes the `except` clauses, and the finally block (lines 240-242) runs.
CancelledTask(task, q, done) ==
    IF task = "created" THEN [queue |-> q, done |-> done]
                        ELSE RunWorkflowFinally(q)

\* The application shuts down before the workflow has ended, and the event
\* loop cancels workflow_task.
WorkflowTaskCancelled ==
    /\ api = "packages"
    /\ wf_task \in {"created", "running"}
    /\ LET f == CancelledTask(wf_task, event_queue, workflow_done)
       IN /\ event_queue' = f.queue
          /\ workflow_done' = f.done
    /\ wf_task' = "cancelled"
    /\ UNCHANGED <<toolVars, triageVars, loadVars, pairVars, callVars>>
    /\ UNCHANGED <<api, chat_client, wf_script, wf_end, wf_i, workflow_error, gen_pc,
                   out, chat_pc, sse>>

\* event_generator, lines 212-229: the CancelledError that left the stream is
\* not an Exception; the response ends without a further record.
ChatCancelled ==
    /\ api = "packages"
    /\ chat_pc = "streaming"
    /\ gen_pc = "cancelled"
    /\ chat_pc' = "aborted"
    /\ UNCHANGED <<toolVars, triageVars, loadVars, pairVars, callVars>>
    /\ UNCHANGED <<api, chat_client, wf_script, wf_end, wf_i, wf_task, event_queue,
                   workflow_done, workflow_error, gen_pc, out, sse>>

\* event_generator, lines 202-210: the stream ended, the end event is sent.
ChatComplete ==
    /\ api = "packages"
    /\ chat_pc = "streaming"
    /\ gen_pc = "ended"
    /\ sse' = Append(sse, CompleteEnvelope)
    /\ chat_pc' = "done"
    /\ UNCHANGED <<toolVars, triageVars, loadVars, pairVars, callVars>>
    /\ UNCHANGED <<api, chat_client, wf_script, wf_end, wf_i, wf_task, event_queue,
                   workflow_done, workflow_error, gen_pc, out>>

\* event_generator, lines 212-229: the stream raised an Exception.
ChatError ==
    /\ api = "packages"
    /\ chat_pc = "streaming"
    /\ gen_pc = "raised"
    /\ sse' = Append(sse, GeneralErrorEnvelope)
    /\ chat_pc' = "done"
    /\ UNCHANGED <<toolVars, triageVars, loadVars, pairVars, callVars>>
    /\ UNCHANGED <<api, chat_client, wf_script, wf_end, wf_i, wf_task, event_queue,
                   workflow_done, workflow_error, gen_pc, out>>

----------------------------------------------------------------------------
(* src/api-python: TravelWorkflowOrchestrator.process_request_stream and the *)
(* chat.event_generator of src/api-python main.py                            *)

chunk_size == 50

\* The answers of the triage agent considered: lengths around the multiples of
\* chunk_size; character k of an answer is written k.
ResultLengths ==
    {k * chunk_size + r : k \in 0..MaxChunks, r \in {0, 1}} \cup {chunk_size - 1}

Results == {[k \in 1..n |-> k] : n \in ResultLengths}

\* An event yielded by TravelWorkflowOrchestrator.process_request_stream.
TriageEvent(agent, event, delta) ==
    [agent |-> agent, event |-> event, delta |-> delta]

\* Mutant: the slice stops one character early.
ChunkShort(res, i) == SubSeq(res, i + 1, Min(i + chunk_size, Len(res)) - 1)

\* process_request_stream, lines 298-299: result[i:i + chunk_size].
Chunk(res, i) == SubSeq(res, i + 1, Min(i + chunk_size, Len(res)))

\* event_generator (src main.py), lines 176-184: the envelope of an event.
TriageEnvelope(ev) ==
    [type |-> "metadata", agent |-> ev.agent, event |-> ev.event, id |-> 0,
     data |-> "dict", inner |-> Absent, errorStatus |-> Absent,
     errorMessage |-> Absent]

\* event_generator (src main.py), lines 188-196: the envelope for an Exception.
TriageErrorEnvelope ==
    [type |-> "metadata", agent |-> "null", event |-> "error", id |-> 0,
     data |-> "dict", inner |-> Absent, errorStatus |-> Absent,
     errorMessage |-> Absent]

\* TravelWorkflowOrchestrator.initialize: llm_client and triage_agent are set.
WorkflowInitialize ==
    /\ api = "src"
    /\ chat_pc = "idle"
    /\ ~chat_client
    /\ chat_client' = TRUE
    /\ UNCHANGED <<toolVars, triageVars, loadVars, pairVars, callVars>>
    /\ UNCHANGED <<api, wf_script, wf_end, wf_i, wf_task, event_queue,
                   workflow_done, workflow_error, gen_pc, out, chat_pc, sse>>

\* The rest of streamVars that the triage stream never touches.
TriageFrame ==
    UNCHANGED <<toolVars, loadVars, pairVars, callVars, api, chat_client, wf_script, wf_end, wf_i, wf_task,
                event_queue, workflow_done, workflow_error, result>>

\* A yield of process_request_stream, forwarded by event_generator.
TriageYield(ev, pc) ==
    /\ out' = Append(out, ev)
    /\ sse' = Append(sse, TriageEnvelope(ev))
    /\ gen_pc' = pc

\* process_request_stream, lines 264-279 (first pull by event_generator): the
\* RuntimeError of an uninitialized workflow reaches event_generator's handler.
TriageStart ==
    /\ api = "src"
    /\ chat_pc = "idle"
    /\ IF ~chat_client
         THEN /\ gen_pc' = "raised"
              /\ sse' = Append(sse, TriageErrorEnvelope)
              /\ chat_pc' = "done"
              /\ UNCHANGED out
         ELSE /\ TriageYield(TriageEvent("TriageAgent", "AgentSetup", << >>), "tw_setup")
              /\ chat_pc' = "streaming"
    /\ UNCHANGED chunk_i
    /\ TriageFrame

\* process_request_stream, lines 281-290.
TriageToolCall ==
    /\ api = "src"
    /\ chat_pc = "streaming"
    /\ gen_pc = "tw_setup"
    /\ TriageYield(TriageEvent("TriageAgent", "AgentToolCall", << >>), "tw_toolcall")
    /\ UNCHANGED <<chat_pc, chunk_i>>
    /\ TriageFrame

\* process_request_stream, line 293: the await of triage_agent.process begins.
TriageProcess ==
    /\ api = "src"
    /\ chat_pc = "streaming"
    /\ gen_pc = "tw_toolcall"
    /\ gen_pc' = "tw_processing"
    /\ UNCHANGED <<out, sse, chat_pc, chunk_i>>
    /\ TriageFrame

\* process_request_stream, lines 298-318: the chunking loop from offset i to
\* its next yield, or the completion event after the last chunk.
ChunkLoop(i) ==
    IF i < Len(result)
      THEN /\ TriageYield(TriageEvent("TriageAgent", "AgentStream", Chunk(result, i)),
                          "tw_chunk")
           /\ chunk_i' = i + chunk_size
      ELSE /\ TriageYield(TriageEvent("TriageAgent", "AgentComplete", result),
                          "tw_complete")
           /\ UNCHANGED chunk_i

\* process_request_stream, lines 293-331: triage_agent.process returns or
\* raises; the handler yields an Error event.
TriageProcessed ==
    /\ api = "src"
    /\ chat_pc = "streaming"
    /\ gen_pc = "tw_processing"
    /\ IF wf_end = "raise"
         THEN /\ TriageYield(TriageEvent("null", "Error", << >>), "tw_error")
              /\ UNCHANGED chunk_i
         ELSE ChunkLoop(0)
    /\ UNCHANGED chat_pc
    /\ TriageFrame

\* process_request_stream, lines 298-307: the next iteration of the loop.
TriageChunkResume ==
    /\ api = "src"
    /\ chat_pc = "streaming"
    /\ gen_pc = "tw_chunk"
    /\ ChunkLoop(chunk_i)
    /\ UNCHANGED chat_pc
    /\ TriageFrame

\* process_request_stream, line 320, and event_generator, line 186: the stream
\* and the response end.
TriageCompleteResume ==
    /\ api = "src"
    /\ chat_pc = "streaming"
    /\ gen_pc = "tw_complete"
    /\ gen_pc' = "ended"
    /\ chat_pc' = "done"
    /\ UNCHANGED <<out, sse, chunk_i>>
    /\ TriageFrame

\* process_request_stream, line 332 (`raise` after the Error event), caught by
\* event_generator, lines 188-196, which sends its own error envelope.
TriageErrorResume ==
    /\ api = "src"
    /\ chat_pc = "streaming"
    /\ gen_pc = "tw_error"
    /\ gen_pc' = "raised"
    /\ sse' = Append(sse, TriageErrorEnvelope)
    /\ chat_pc' = "done"
    /\ UNCHANGED <<out, chunk_i>>
    /\ TriageFrame

\* The client goes away while the triage stream is suspended.  At a yield
\* event_generator is closed (GeneratorExit at main.py line 184) and
\* process_request_stream is only abandoned where it stands; at the await of
\* triage_agent.process the task is cancelled and CancelledError leaves both.
TriageDisconnect ==
    /\ api = "src"
    /\ chat_pc = "streaming"
    /\ gen_pc \in {"tw_setup", "tw_toolcall", "tw_processing", "tw_chunk",
                   "tw_complete", "tw_error"}
    /\ gen_pc' = IF gen_pc = "tw_processing" THEN "closed" ELSE gen_pc
    /\ chat_pc' = "aborted"
    /\ UNCHANGED <<out, sse, chunk_i>>
    /\ TriageFrame

\* The abandoned process_request_stream is closed by the task the event loop
\* schedules for it (aclose): GeneratorExit at the yield where it is
\* suspended is no Exception (line 320), nothing more is yielded.
TriageAclose ==
    /\ api = "src"
    /\ chat_pc = "aborted"
    /\ gen_pc \in {"tw_setup", "tw_toolcall", "tw_chunk", "tw_complete", "tw_error"}
    /\ gen_pc' = "closed"
    /\ UNCHANGED <<out, sse, chat_pc, chunk_i>>
    /\ TriageFrame

----------------------------------------------------------------------------
(* src/api-python: MCPToolLoader.get_tools and the tool-loading loop of      *)
(* TravelWorkflowOrchestrator.initialize                                     *)

\* An id initialize enables by default that MCP_TOOLS_CONFIG does not hold.
UnknownId == "web-search"

Reverse(s) == [i \in 1..Len(s) |-> s[Len(s) + 1 - i]]

\* initialize, lines 65-74: the list used when the caller gives none, as the
\* startup does (main.py lifespan).
DefaultEnabledTools ==
    <<"customer-query", "web-search", "itinerary-planning", "model-inference",
      "code-evaluation", "destination-recommendation">>

\* initialize, line 81: `tool_id in MCP_TOOLS_CONFIG`.
InConfig(tool_id) ==
    \E i \in 1..Len(MCP_TOOLS_CONFIG) : MCP_TOOLS_CONFIG[i] = tool_id

\* The lists of ids initialize is asked for: the default list, the configured
\* servers in configuration order and in reverse order, the same with an
\* unknown id between them, the servers other than customer-query around an
\* unknown id, one server asked for twice, and no server at all.
RequestLists ==
    { DefaultEnabledTools,
      ConfigOrder,
      Reverse(ConfigOrder),
      <<Head(ConfigOrder), UnknownId>> \o Tail(ConfigOrder),
      <<ConfigOrder[Len(ConfigOrder)], UnknownId, Head(ConfigOrder)>>,
      <<Head(ConfigOrder), Head(ConfigOrder)>>,
      << >> }

\* The exception classes a refused connection is reported with.
RefusalClasses == {"ConnectionError", "OSError", "TimeoutError", "RuntimeError"}

\* get_tools, line 81: list(mcp_tool.functions), the function objects of the
\* connected server in catalog order; `server` stands for the object identity.
Functions(s, b) ==
    [i \in 1..Len(LoadedTools(s, b)) |->
        [server |-> s, name |-> LoadedTools(s, b)[i].str]]

\* Mutant: get_tools lets the exception out.
GetToolsReraises(exc, tools) == [raised |-> exc, tools |-> << >>]

\* Mutant: a failed get_tools hands back whatever the loader holds in _tools.
GetToolsKeepsTools(exc, tools) == [raised |-> NoError, tools |-> tools]

\* get_tools, lines 89-115: the except clauses.  CancelledError, the network
\* errors and every other Exception give an empty list; only an exception that
\* is not an Exception (and not CancelledError) leaves get_tools.
GetToolsHandler(exc, tools) ==
    CASE exc = "CancelledError" -> [raised |-> NoError, tools |-> << >>]
      [] exc \in {"ConnectionError", "OSError", "TimeoutError"}
                                -> [raised |-> NoError, tools |-> << >>]
      [] IsException(exc)       -> [raised |-> NoError, tools |-> << >>]
      [] OTHER                  -> [raised |-> exc, tools |-> << >>]

\* Mutant: the new tools are put in front of the list.
ExtendFront(all, tools) == tools \o all

\* initialize, line 93: self.all_tools.extend(tools).
Extend(all, tools) == all \o tools

\* tools_by_server[tool_id] = tools.
DictSet(d, k, v) == [x \in DOMAIN d \cup {k} |-> IF x = k THEN v ELSE d[x]]

EmptyDict == [x \in {} |-> << >>]

\* initialize, line 53-78: the call begins: the client is created and the
\* local dictionary is empty; all_tools is left as it stands.  initialize runs
\* at startup (main.py lifespan), before any request is served.
InitializeStart ==
    /\ load_pc \in {"idle", "done"}
    /\ load_run < MaxRuns
    /\ lt_pc = "idle"
    /\ chat_client' = TRUE
    /\ llm_client' = TRUE
    /\ load_run' = load_run + 1
    /\ load_i' = 1
    /\ tools_by_server' = EmptyDict
    /\ load_pc' = "loop"
    /\ UNCHANGED <<toolVars, triageVars, pairVars>>
    /\ UNCHANGED <<triage_agent, specialized_agents, init_pc, base_agent, llm_calls,
                   call_log, in_flight>>
    /\ UNCHANGED <<api, wf_script, wf_end, wf_i, wf_task, event_queue,
                   workflow_done, workflow_error, gen_pc, out, chat_pc, sse>>
    /\ UNCHANGED <<enabled_tools, refusal, load_cancel, loader_tools, all_tools,
                   init_results, load_exc>>

\* initialize, lines 106-180: the attributes of the specialized agents, in the
\* order initialize assigns them; triage_agent is assigned after the last.
AgentOrder ==
    <<"echo_agent", "customer_query_agent", "web_search_agent", "itinerary_agent",
      "model_inference_agent", "code_eval_agent", "destination_agent">>

SpecializedAttrs == {AgentOrder[k] : k \in 1..Len(AgentOrder)}

\* The specialized agents when none has been built.
NoAgents == [a \in SpecializedAttrs |-> "None"]

\* initialize, lines 104-189: the agents are built once the loop is over.  The
\* EchoAgent is built either way; CustomerQueryAgent is given `tools=` when
\* customer-query is a key of tools_by_server, and its constructor
\* (specialized_agents.py, line 12) takes no argument: TypeError.  Otherwise
\* every agent is built and the triage agent is assigned last.
BuildAgents(by_server) ==
    IF "customer-query" \in DOMAIN by_server THEN "TypeError" ELSE NoError

\* initialize, lines 106-189: the attributes of the specialized agents after
\* the agents are built: the EchoAgent is assigned and initialized before the
\* TypeError, the agents after it are assigned only when there is none.
AgentsBuilt(by_server, specialized) ==
    IF BuildAgents(by_server) = NoError
      THEN [a \in SpecializedAttrs |-> "ready"]
      ELSE [specialized EXCEPT !["echo_agent"] = "ready"]

\* initialize, lines 80-88 and 104-189: the head of the loop.  After the last
\* id the agents are built over all_tools, and initialize returns or raises;
\* an id that is not configured is passed over; for a configured id a new
\* wrapper is stored and its get_tools starts connecting.
LoadNext ==
    /\ load_pc = "loop"
    /\ IF load_i > Len(enabled_tools)
         THEN /\ load_exc' = BuildAgents(tools_by_server)
              /\ load_pc' = IF load_exc' = NoError THEN "done" ELSE "raised"
              /\ triage_agent' = IF load_exc' = NoError THEN "ready" ELSE triage_agent
              /\ specialized_agents' = AgentsBuilt(tools_by_server, specialized_agents)
              /\ init_results' = IF load_exc' = NoError
                                   THEN Append(init_results,
                                               [all_tools |-> all_tools,
                                                tools_by_server |-> tools_by_server])
                                   ELSE init_results
              /\ UNCHANGED <<load_i, loader_tools>>
         ELSE IF ~InConfig(enabled_tools[load_i])
           THEN /\ load_i' = load_i + 1
                /\ UNCHANGED <<load_pc, loader_tools, init_results, load_exc,
                               triage_agent, specialized_agents>>
           ELSE /\ load_pc' = "connecting"
                /\ loader_tools' = [loader_tools EXCEPT ![enabled_tools[load_i]] = << >>]
                /\ UNCHANGED <<load_i, init_results, load_exc, triage_agent,
                               specialized_agents>>
    /\ UNCHANGED <<toolVars, streamVars, triageVars, pairVars>>
    /\ UNCHANGED <<llm_client, init_pc, base_agent, llm_calls, call_log, in_flight>>
    /\ UNCHANGED <<enabled_tools, refusal, load_run, load_cancel, tools_by_server,
                   all_tools>>

\* initialize, lines 91-102: get_tools has ended with outcome r; its list is
\* stored and appended to all_tools, an Exception is logged, and the loop goes
\* on with the next id; any other exception leaves initialize.
LoadReturn(r) ==
    IF r.raised = NoError
      THEN /\ tools_by_server' = DictSet(tools_by_server, enabled_tools[load_i], r.tools)
           /\ all_tools' = Extend(all_tools, r.tools)
           /\ load_i' = load_i + 1
           /\ load_pc' = "loop"
           /\ UNCHANGED load_exc
      ELSE /\ load_i' = IF IsException(r.raised) THEN load_i + 1 ELSE load_i
           /\ load_pc' = IF IsException(r.raised) THEN "loop" ELSE "raised"
           /\ load_exc' = IF IsException(r.raised) THEN load_exc ELSE r.raised
           /\ UNCHANGED <<tools_by_server, all_tools>>

\* get_tools, lines 72-81: __aenter__ ends: the connection is refused, or the
\* catalog is loaded and copied to _tools, and `return` begins to close.
GetToolsConnected ==
    /\ load_pc = "connecting"
    /\ LET s == enabled_tools[load_i] IN
       /\ behav[s] # "hang"
       /\ IF behav[s] = "refuse"
            THEN /\ LoadReturn(GetToolsHandler(refusal, loader_tools[s]))
                 /\ UNCHANGED loader_tools
            ELSE /\ loader_tools' = [loader_tools EXCEPT ![s] = Functions(s, behav[s])]
                 /\ load_pc' = "closing"
                 /\ UNCHANGED <<load_i, tools_by_server, all_tools, load_exc>>
    /\ UNCHANGED <<toolVars, streamVars, triageVars, pairVars, callVars>>
    /\ UNCHANGED <<enabled_tools, refusal, load_run, load_cancel, init_results>>

\* get_tools, lines 79-87: __aexit__ ends, and get_tools returns _tools, or the
\* close raised and the handler of line 107 runs.
GetToolsClosed ==
    /\ load_pc = "closing"
    /\ LET s == enabled_tools[load_i] IN
       IF behav[s] = "closefail"
         THEN LoadReturn(GetToolsHandler("CloseError", loader_tools[s]))
         ELSE LoadReturn([raised |-> NoError, tools |-> loader_tools[s]])
    /\ UNCHANGED <<toolVars, streamVars, triageVars, pairVars, callVars>>
    /\ UNCHANGED <<enabled_tools, refusal, load_run, load_cancel, loader_tools,
                   init_results>>

\* main.py lifespan, lines 40-43: the 60 s timer of wait_for, which wraps the
\* startup's call of initialize, expires while get_tools is awaiting; the
\* CancelledError is delivered at that await and the handler of get_tools,
\* lines 89-97, runs.
InitializeTimeout ==
    /\ load_pc \in {"connecting", "closing"}
    /\ load_run = 1
    /\ load_cancel = 0
    /\ load_cancel' = load_i
    /\ LoadReturn(GetToolsHandler("CancelledError", loader_tools[enabled_tools[load_i]]))
    /\ UNCHANGED <<toolVars, streamVars, triageVars, pairVars, callVars>>
    /\ UNCHANGED <<enabled_tools, refusal, load_run, loader_tools, init_results>>

----------------------------------------------------------------------------
(* Two concurrent invocations of ToolRegistry.list_tools on one registry *)

\* The two invocations.
Calls == {1, 2}

\* Mutant: the probes' dictionaries and the task list are kept on the registry
\* object, where every invocation finds those of the first.
SharedScope(c) == 1

\* list_tools, lines 146-200: server_info is a local of each probe coroutine
\* and tasks a local of the invocation: the invocation whose objects the code
\* of invocation c reads and writes is c itself.
ProbeScope(c) == c

\* The locals of an invocation of list_tools before it starts; writer[s] is
\* the invocation whose probe last wrote server_info[s] (0: none).
LtCallIdle ==
    [pc |-> "idle", tasks |-> << >>,
     task_st |-> [s \in Servers |-> "none"],
     task_cancel |-> [s \in Servers |-> FALSE],
     server_info |-> [s \in Servers |-> InitialServerInfo(s)],
     writer |-> [s \in Servers |-> 0],
     deadline |-> "unarmed", result |-> << >>, exc |-> NoError]

\* The entries of a report, each with the invocation whose probe produced it.
Tagged(results, writer) ==
    [i \in 1..Len(results) |->
        [kind |-> results[i].kind, value |-> results[i].value,
         by |-> writer[results[i].value.id]]]

\* list_tools, lines 196-207, for invocation c.
PairListToolsStart(c) ==
    /\ pair_op = "list_tools"
    /\ lt_calls[c].pc = "idle"
    /\ lt_calls' = [lt_calls EXCEPT
                      ![c].tasks = SelectSeq(ConfigOrder, LAMBDA s : s \in server_metadata),
                      ![c].task_st = [s \in Servers |->
                                        IF s \in server_metadata THEN "created" ELSE "none"],
                      ![c].deadline = "armed",
                      ![c].pc = "waiting"]
    /\ UNCHANGED <<toolVars, streamVars, triageVars, loadVars, callVars, pair_op, st_calls>>

\* check_server_and_list_tools, lines 148-168, for the probe of s in c.
PairProbeStart(c, s) ==
    /\ lt_calls[c].task_st[s] = "created"
    /\ ~lt_calls[c].task_cancel[s]
    /\ lt_calls' = [lt_calls EXCEPT
                      ![ProbeScope(c)].server_info[s] = InitialServerInfo(s),
                      ![ProbeScope(c)].writer[s] = c,
                      ![c].task_st[s] =
                          IF CreateMcpTool(s, server_metadata) = "None"
                            THEN "done" ELSE "connecting"]
    /\ UNCHANGED <<toolVars, streamVars, triageVars, loadVars, callVars, pair_op, st_calls>>

\* check_server_and_list_tools, lines 168-192: __aenter__ completes.
PairProbeConnected(c, s) ==
    /\ lt_calls[c].task_st[s] = "connecting"
    /\ ~lt_calls[c].task_cancel[s]
    /\ behav[s] # "hang"
    /\ IF behav[s] = "refuse"
         THEN lt_calls' = [lt_calls EXCEPT
                             ![ProbeScope(c)].server_info[s].error = "ConnectionError",
                             ![ProbeScope(c)].writer[s] = c,
                             ![c].task_st[s] = "done"]
         ELSE LET conv == ConvertTools(LoadedTools(s, behav[s])) IN
              lt_calls' = [lt_calls EXCEPT
                             ![ProbeScope(c)].server_info[s].reachable = TRUE,
                             ![ProbeScope(c)].server_info[s].tools =
                                 StoredTools(conv, @),
                             ![ProbeScope(c)].writer[s] = c,
                             ![c].task_st[s] = "closing"]
    /\ UNCHANGED <<toolVars, streamVars, triageVars, loadVars, callVars, pair_op, st_calls>>

\* check_server_and_list_tools, lines 168-194: __aexit__ completes.
PairProbeClosed(c, s) ==
    /\ lt_calls[c].task_st[s] = "closing"
    /\ ~lt_calls[c].task_cancel[s]
    /\ LET exc == IF ConvertTools(LoadedTools(s, behav[s])).raised THEN "AttributeError"
                  ELSE IF behav[s] = "closefail" THEN "CloseError" ELSE NoError
       IN lt_calls' = [lt_calls EXCEPT
                         ![ProbeScope(c)].server_info[s].error = exc,
                         ![ProbeScope(c)].writer[s] = c,
                         ![c].task_st[s] = "done"]
    /\ UNCHANGED <<toolVars, streamVars, triageVars, loadVars, callVars, pair_op, st_calls>>

\* A probe of c whose cancellation was requested gets CancelledError.
PairProbeCancelled(c, s) ==
    /\ lt_calls[c].task_cancel[s]
    /\ lt_calls[c].task_st[s] \in {"created", "connecting", "closing"}
    /\ lt_calls' = [lt_calls EXCEPT ![c].task_st[s] = "cancelled"]
    /\ UNCHANGED <<toolVars, streamVars, triageVars, loadVars, callVars, pair_op, st_calls>>

\* The timer of c's wait_for (line 206) expires.
PairDeadlineFires(c) ==
    /\ lt_calls[c].pc = "waiting"
    /\ lt_calls[c].deadline = "armed"
    /\ lt_calls' = [lt_calls EXCEPT ![c].deadline = "fired"]
    /\ UNCHANGED <<toolVars, streamVars, triageVars, loadVars, callVars, pair_op, st_calls>>

\* list_tools, lines 204-207 and 220-228, for invocation c.
PairListToolsGathered(c) ==
    LET d == lt_calls[ProbeScope(c)] IN
    /\ lt_calls[c].pc = "waiting"
    /\ GatherDone(d.tasks, d.task_st)
    /\ lt_calls' = [lt_calls EXCEPT
                      ![c].result = Tagged(BuildToolsList(
                          [i \in 1..Len(d.tasks) |-> TaskResult(d.tasks[i], d.server_info)]),
                          d.writer),
                      ![c].pc = "returned"]
    /\ UNCHANGED <<toolVars, streamVars, triageVars, loadVars, callVars, pair_op, st_calls>>

\* c's wait_for cancels its gather, and so the unfinished tasks in `tasks`.
PairListToolsTimeout(c) ==
    LET d == lt_calls[ProbeScope(c)] IN
    /\ lt_calls[c].pc = "waiting"
    /\ lt_calls[c].deadline = "fired"
    /\ ~GatherDone(d.tasks, d.task_st)
    /\ lt_calls' = [lt_calls EXCEPT
                      ![ProbeScope(c)].task_cancel =
                          WaitForCancel(d.tasks, d.task_st, d.task_cancel),
                      ![c].pc = "cancelling"]
    /\ UNCHANGED <<toolVars, streamVars, triageVars, loadVars, callVars, pair_op, st_calls>>

\* list_tools, lines 208-228, for invocation c.
PairListToolsAfterTimeout(c) ==
    LET d == lt_calls[ProbeScope(c)]
        h == TimeoutHandler(d.tasks, d.task_st, d.server_info,
                            [raised |-> NoError, results |-> << >>, cancel |-> {}])
    IN
    /\ lt_calls[c].pc = "cancelling"
    /\ GatherDone(d.tasks, d.task_st)
    /\ lt_calls' = [lt_calls EXCEPT
                      ![c].exc = h.raised,
                      ![c].result = IF h.raised # NoError THEN @
                                    ELSE Tagged(BuildToolsList(h.results), d.writer),
                      ![c].pc = IF h.raised # NoError THEN "raised" ELSE "returned"]
    /\ UNCHANGED <<toolVars, streamVars, triageVars, loadVars, callVars, pair_op, st_calls>>

----------------------------------------------------------------------------
(* Two concurrent invocations of process_request_stream on one orchestrator *)

\* The events the workflow of invocation c emits: alternately through the
\* callback and through run_stream, each with a payload of its own.
PairScript(c) ==
    [k \in 1..MaxEvents |->
        [via |-> IF k % 2 = 1 THEN "callback" ELSE "stream",
         cls |-> IF k % 2 = 1 THEN "MagenticAgentDeltaEvent" ELSE "WorkflowOutputEvent",
         kind |-> "",
         agent_id |-> IF k % 2 = 1 THEN "ItineraryAgent" ELSE "",
         id |-> c * (MaxEvents + 1) + k]]

\* The invocation whose workflow emitted the event with this payload.
Owner(id) == id \div (MaxEvents + 1)

\* Mutant: the queue and the completion flag are attributes of the
\* orchestrator, where every invocation finds those of the first.
SharedQueue(c) == 1

\* process_request_stream, lines 134-146: event_queue, workflow_done and
\* workflow_error are locals of the invocation, captured by its own on_event
\* and run_workflow: the invocation whose queue the code of c uses is c.
QueueScope(c) == c

\* The locals of an invocation of process_request_stream before it starts.
StCallIdle(ending) ==
    [wf_end |-> ending, wf_i |-> 0, wf_task |-> "none", event_queue |-> << >>,
     workflow_done |-> FALSE, workflow_error |-> NoError,
     gen_pc |-> "unstarted", out |-> << >>]

\* process_request_stream, lines 85-86, 134-197 and 244-251, for invocation c.
PairGenStart(c) ==
    /\ pair_op = "stream"
    /\ st_calls[c].gen_pc = "unstarted"
    /\ st_calls' = IF ~chat_client
                     THEN [st_calls EXCEPT ![c].gen_pc = "raised"]
                     ELSE [st_calls EXCEPT ![c].wf_task = "created",
                                           ![c].gen_pc = "waiting"]
    /\ UNCHANGED <<toolVars, streamVars, triageVars, loadVars, callVars, pair_op, lt_calls>>

\* run_workflow, line 203: the task of c made by create_task (line 245) takes
\* its first step.
PairRunWorkflowStart(c) ==
    /\ st_calls[c].wf_task = "created"
    /\ st_calls' = [st_calls EXCEPT ![c].wf_task = "running"]
    /\ UNCHANGED <<toolVars, streamVars, triageVars, loadVars, callVars, pair_op, lt_calls>>

\* on_event, lines 141-146, and run_workflow, lines 205-208: the workflow of
\* c emits its next event.
PairEmit(c) ==
    /\ st_calls[c].wf_task = "running"
    /\ st_calls[c].wf_i < Len(PairScript(c))
    /\ st_calls' = [st_calls EXCEPT
                      ![QueueScope(c)].event_queue =
                          PutConverted(@, PairScript(c)[st_calls[c].wf_i + 1]),
                      ![c].wf_i = @ + 1]
    /\ UNCHANGED <<toolVars, streamVars, triageVars, loadVars, callVars, pair_op, lt_calls>>

\* run_workflow, lines 203-242, for invocation c.
PairRunWorkflowEnd(c) ==
    /\ st_calls[c].wf_task = "running"
    /\ st_calls[c].wf_i = Len(PairScript(c))
    /\ LET q == st_calls[QueueScope(c)].event_queue
           f == RunWorkflowFinally(IF st_calls[c].wf_end = "raise"
                                     THEN QueuePut(q, WorkflowErrorEvent) ELSE q)
       IN st_calls' = [st_calls EXCEPT
                         ![QueueScope(c)].event_queue = f.queue,
                         ![QueueScope(c)].workflow_done = f.done,
                         ![QueueScope(c)].workflow_error =
                             IF st_calls[c].wf_end = "raise" THEN "Exception" ELSE @,
                         ![c].wf_task = "done"]
    /\ UNCHANGED <<toolVars, streamVars, triageVars, loadVars, callVars, pair_op, lt_calls>>

\* process_request_stream, lines 251-257 and 270, for invocation c.
PairGenGet(c) ==
    LET q == st_calls[QueueScope(c)].event_queue IN
    /\ st_calls[c].gen_pc \in {"waiting", "timedout"}
    /\ q # << >>
    /\ st_calls' = [st_calls EXCEPT
                      ![QueueScope(c)].event_queue = Tail(q),
                      ![c].out = IF Head(q) = None THEN @ ELSE Append(@, Head(q)),
                      ![c].gen_pc = IF Head(q) = None THEN "ended" ELSE "yielded"]
    /\ UNCHANGED <<toolVars, streamVars, triageVars, loadVars, callVars, pair_op, lt_calls>>

\* The consumer of c asks for the next item.
PairGenResume(c) ==
    /\ st_calls[c].gen_pc = "yielded"
    /\ st_calls' = [st_calls EXCEPT ![c].gen_pc = "waiting"]
    /\ UNCHANGED <<toolVars, streamVars, triageVars, loadVars, callVars, pair_op, lt_calls>>

\* The 0.1 s timer of c's wait_for (line 251) expires on an empty queue.
PairGenTimeout(c) ==
    /\ st_calls[c].gen_pc = "waiting"
    /\ st_calls[c].wf_task # "created"
    /\ st_calls[QueueScope(c)].event_queue = << >>
    /\ st_calls' = [st_calls EXCEPT ![c].gen_pc = "timedout"]
    /\ UNCHANGED <<toolVars, streamVars, triageVars, loadVars, callVars, pair_op, lt_calls>>

\* process_request_stream, lines 259-267: the TimeoutError handler of c, and
\* the drain loop (lines 262-266) resumed by c's consumer.
PairGenDrain(c) ==
    LET d == DrainNext(st_calls[QueueScope(c)].event_queue) IN
    /\ \/ /\ st_calls[c].gen_pc = "timedout"
          /\ AfterTimeout(st_calls[QueueScope(c)].workflow_done) = "drain"
       \/ st_calls[c].gen_pc = "drain_yielded"
    /\ st_calls' = [st_calls EXCEPT
                      ![QueueScope(c)].event_queue = d.queue,
                      ![c].out = IF d.found THEN Append(@, d.item) ELSE @,
                      ![c].gen_pc = IF d.found THEN "drain_yielded" ELSE "ended"]
    /\ UNCHANGED <<toolVars, streamVars, triageVars, loadVars, callVars, pair_op, lt_calls>>

\* process_request_stream, lines 259-267: c's wait_for timed out and the
\* workflow is not done: the loop waits again.
PairGenWaitAgain(c) ==
    /\ st_calls[c].gen_pc = "timedout"
    /\ AfterTimeout(st_calls[QueueScope(c)].workflow_done) = "waiting"
    /\ st_calls' = [st_calls EXCEPT ![c].gen_pc = "waiting"]
    /\ UNCHANGED <<toolVars, streamVars, triageVars, loadVars, callVars, pair_op, lt_calls>>

\* The consumer of c stops before its stream has ended (lines 278-285).
PairStop(c, exc) ==
    /\ \/ exc = "GeneratorExit" /\ st_calls[c].gen_pc \in {"yielded", "drain_yielded"}
       \/ exc = "CancelledError" /\ st_calls[c].gen_pc \in {"waiting", "timedout"}
    /\ st_calls' = [st_calls EXCEPT
                      ![c].wf_task = StopHandler(exc, @),
                      ![c].gen_pc = "closed"]
    /\ UNCHANGED <<toolVars, streamVars, triageVars, loadVars, callVars, pair_op, lt_calls>>

----------------------------------------------------------------------------
(* Calls on an orchestrator or an agent that may not be initialized:         *)
(* TravelWorkflowOrchestrator.process_request / process_request_stream /     *)
(* handoff_to_agent and BaseAgent.process                                    *)

\* Mutant: the guard of the orchestrator looks at llm_client only.
ChecksClientOnly(llm, triage) == ~llm

\* process_request, line 225, and process_request_stream, line 264:
\* `not self.llm_client or not self.triage_agent`.
WorkflowNotInitialized(llm, triage) == ~llm \/ triage = "None"

\* BaseAgent.process, line 81: `not self.agent`.
AgentNotInitialized(agent_set) == ~agent_set

\* BaseAgent.process, lines 81-94: RuntimeError before anything else when the
\* agent has no ChatAgent, else one call of ChatAgent.run.
AgentProcessBody(agent_set) ==
    IF AgentNotInitialized(agent_set)
      THEN [outcome |-> "RuntimeError", llm |-> FALSE]
      ELSE [outcome |-> "returned", llm |-> TRUE]

\* `self.triage_agent.process(message, context)`: an attribute that is None
\* has no `process`.
TriageProcessCall(triage) ==
    IF triage = "None"
      THEN [outcome |-> "AttributeError", llm |-> FALSE]
      ELSE AgentProcessBody(triage = "ready")

\* process_request, lines 225-240: the guard, then the triage agent; an
\* exception of the agent is logged and raised again.
ProcessRequestBody(llm, triage) ==
    IF WorkflowNotInitialized(llm, triage)
      THEN [outcome |-> "RuntimeError", llm |-> FALSE, events |-> 0]
      ELSE LET r == TriageProcessCall(triage)
           IN [outcome |-> r.outcome, llm |-> r.llm, events |-> 0]

\* process_request_stream, line 298: the offsets of `range(0, len(result),
\* chunk_size)` for an answer of n characters.
ChunkOffsets(n) == {i \in 0..(n - 1) : i % chunk_size = 0}

\* process_request_stream, lines 264-332, iterated to its end with an answer
\* of n characters: the guard raises at the first pull; otherwise AgentSetup
\* and AgentToolCall are yielded, then the triage agent runs, and either its
\* answer is streamed (one AgentStream for each offset, then AgentComplete) or
\* the Error event is yielded and the exception raised again.
ProcessRequestStreamBody(llm, triage, n) ==
    IF WorkflowNotInitialized(llm, triage)
      THEN [outcome |-> "RuntimeError", llm |-> FALSE, events |-> 0]
      ELSE LET r == TriageProcessCall(triage)
           IN [outcome |-> r.outcome, llm |-> r.llm,
               events |-> IF r.outcome = "returned"
                            THEN 2 + Cardinality(ChunkOffsets(n)) + 1 ELSE 3]

\* specialized_agents.py: the `name` each agent class gives itself.
AgentName(attr) ==
    CASE attr = "triage_agent" -> "TriageAgent"
      [] attr = "customer_query_agent" -> "CustomerQueryAgent"
      [] attr = "destination_agent" -> "DestinationRecommendationAgent"
      [] attr = "itinerary_agent" -> "ItineraryPlanningAgent"
      [] attr = "code_eval_agent" -> "CodeEvaluationAgent"
      [] attr = "model_inference_agent" -> "ModelInferenceAgent"
      [] attr = "web_search_agent" -> "WebSearchAgent"
      [] attr = "echo_agent" -> "EchoAgent"

\* The state of the attribute attr: "None", "created" (the agent object
\* without its ChatAgent) or "ready".
AgentAttr(attr, triage, specialized) ==
    IF attr = "triage_agent" THEN triage ELSE specialized[attr]

\* The `agents` property, lines 191-207: the attributes that are not None, in
\* the order of the property's list.
AgentsProperty(triage, specialized) ==
    SelectSeq(<<"triage_agent", "customer_query_agent", "destination_agent",
                "itinerary_agent", "code_eval_agent", "model_inference_agent",
                "web_search_agent", "echo_agent">>,
              LAMBDA a : AgentAttr(a, triage, specialized) # "None")

\* get_agent_by_name, lines 334-346: the first agent of the property whose
\* name is `name`, or None.
GetAgentByName(name, triage, specialized) ==
    LET found == SelectSeq(AgentsProperty(triage, specialized),
                           LAMBDA a : AgentName(a) = name)
    IN IF found = << >> THEN "None" ELSE Head(found)

\* The names handoff_to_agent is called with: the eight agents and a name no
\* agent has.
HandoffNames ==
    {AgentName(a) : a \in SpecializedAttrs \cup {"triage_agent"}} \cup {"NoSuchAgent"}

\* handoff_to_agent, lines 348-372: ValueError when no agent has the name;
\* otherwise the agent's process, whatever the state of the orchestrator.
HandoffBody(name, triage, specialized) ==
    LET a == GetAgentByName(name, triage, specialized)
    IN IF a = "None"
         THEN [outcome |-> "ValueError", llm |-> FALSE]
         ELSE AgentProcessBody(AgentAttr(a, triage, specialized) = "ready")

\* The first attribute of AgentOrder that is not ready yet, 0 when all are.
NextAgent(specialized) ==
    LET todo == {k \in 1..Len(AgentOrder) : specialized[AgentOrder[k]] # "ready"}
    IN IF todo = {} THEN 0 ELSE CHOOSE k \in todo : \A j \in todo : k <= j

\* main.py lifespan, lines 40-43: the startup calls initialize.  The startup
\* actions follow a call of initialize through the attributes it assigns; what
\* makes it fail (StartupFails) is in LoadNext and BuildAgents.
StartupInitialize ==
    /\ init_pc = "new"
    /\ init_pc' = "running"
    /\ UNCHANGED <<toolVars, streamVars, triageVars, loadVars, pairVars>>
    /\ UNCHANGED <<llm_client, triage_agent, specialized_agents, base_agent, llm_calls,
                   call_log, in_flight>>

\* initialize, line 62: self.llm_client = await get_llm_client().
StartupGetLlmClient ==
    /\ init_pc = "running"
    /\ ~llm_client
    /\ llm_client' = TRUE
    /\ UNCHANGED <<toolVars, streamVars, triageVars, loadVars, pairVars>>
    /\ UNCHANGED <<triage_agent, specialized_agents, init_pc, base_agent, llm_calls,
                   call_log, in_flight>>

\* initialize, lines 106-180: the next specialized agent is constructed and
\* assigned to its attribute.
StartupCreateAgent ==
    /\ init_pc = "running"
    /\ llm_client
    /\ NextAgent(specialized_agents) # 0
    /\ specialized_agents[AgentOrder[NextAgent(specialized_agents)]] = "None"
    /\ specialized_agents' =
          [specialized_agents EXCEPT ![AgentOrder[NextAgent(specialized_agents)]] = "created"]
    /\ UNCHANGED <<toolVars, streamVars, triageVars, loadVars, pairVars>>
    /\ UNCHANGED <<llm_client, triage_agent, init_pc, base_agent, llm_calls, call_log,
                   in_flight>>

\* initialize, lines 106-180, with BaseAgent.initialize, lines 47-66: the
\* agent just constructed gets its ChatAgent.
StartupInitAgent ==
    /\ init_pc = "running"
    /\ NextAgent(specialized_agents) # 0
    /\ specialized_agents[AgentOrder[NextAgent(specialized_agents)]] = "created"
    /\ specialized_agents' =
          [specialized_agents EXCEPT ![AgentOrder[NextAgent(specialized_agents)]] = "ready"]
    /\ UNCHANGED <<toolVars, streamVars, triageVars, loadVars, pairVars>>
    /\ UNCHANGED <<llm_client, triage_agent, init_pc, base_agent, llm_calls, call_log,
                   in_flight>>

\* initialize, line 183: self.triage_agent = TriageAgent(tools=self.all_tools).
StartupCreateTriage ==
    /\ init_pc = "running"
    /\ llm_client
    /\ NextAgent(specialized_agents) = 0
    /\ triage_agent = "None"
    /\ triage_agent' = "created"
    /\ UNCHANGED <<toolVars, streamVars, triageVars, loadVars, pairVars>>
    /\ UNCHANGED <<llm_client, specialized_agents, init_pc, base_agent, llm_calls,
                   call_log, in_flight>>

\* initialize, lines 184-189, with BaseAgent.initialize, lines 47-66: the
\* triage agent gets its ChatAgent and initialize returns.
StartupInitTriage ==
    /\ init_pc = "running"
    /\ triage_agent = "created"
    /\ triage_agent' = "ready"
    /\ init_pc' = "over"
    /\ UNCHANGED <<toolVars, streamVars, triageVars, loadVars, pairVars>>
    /\ UNCHANGED <<llm_client, specialized_agents, base_agent, llm_calls, call_log,
                   in_flight>>

\* main.py lifespan, lines 44-53: initialize raised or timed out where it
\* stood; the application starts with what has been set so far.
StartupFails ==
    /\ init_pc = "running"
    /\ init_pc' = "over"
    /\ UNCHANGED <<toolVars, streamVars, triageVars, loadVars, pairVars>>
    /\ UNCHANGED <<llm_client, triage_agent, specialized_agents, base_agent, llm_calls,
                   call_log, in_flight>>

\* BaseAgent.initialize, lines 47-66, on an agent of its own.
AgentInitialize ==
    /\ ~base_agent
    /\ base_agent' = TRUE
    /\ UNCHANGED <<toolVars, streamVars, triageVars, loadVars, pairVars>>
    /\ UNCHANGED <<llm_client, triage_agent, specialized_agents, init_pc, llm_calls,
                   call_log, in_flight>>

\* A sequence without its i-th element.
RemoveAt(s, i) == SubSeq(s, 1, i - 1) \o SubSeq(s, i + 1, Len(s))

\* The entry logged when a call ends: whether initialize had completed when
\* the call began (`init`), how the call ended, whether ChatAgent.run was
\* called and how many events were yielded before the end.
LogEntry(op, init, outcome, llm, events) ==
    [op |-> op, init |-> init, outcome |-> outcome, llm |-> llm, events |-> events]

\* A call that is suspended: at the yield of an event (pos is the event's
\* name) or at `await self.agent.run(...)` (pos "llm"); exc is the exception
\* the Error event of a stream reports, result the length of the answer being
\* streamed and chunk_i the offset of the next chunk.
Suspended(op, init, pos, llm, events, exc) ==
    [op |-> op, init |-> init, pos |-> pos, llm |-> llm, events |-> events,
     exc |-> exc, result |-> 0, chunk_i |-> 0]

\* process_request, lines 225-233 with BaseAgent.process, lines 81-88: a call
\* begins and runs to its first suspension, the await of ChatAgent.run, or to
\* the exception that ends it before.  Calls are made before the startup or
\* once it is over; no statement of a call assigns an attribute of the
\* orchestrator.
ProcessRequestStart ==
    /\ init_pc # "running"
    /\ Len(call_log) + Len(in_flight) < MaxRuns
    /\ LET r == ProcessRequestBody(llm_client, triage_agent)
           init == llm_client /\ triage_agent = "ready"
       IN IF r.llm
            THEN /\ llm_calls' = llm_calls + 1
                 /\ in_flight' = Append(in_flight,
                       Suspended("process_request", init, "llm", TRUE, 0, NoError))
                 /\ UNCHANGED call_log
            ELSE /\ call_log' = Append(call_log,
                       LogEntry("process_request", init, r.outcome, FALSE, 0))
                 /\ UNCHANGED <<llm_calls, in_flight>>
    /\ UNCHANGED <<toolVars, streamVars, triageVars, loadVars, pairVars>>
    /\ UNCHANGED <<llm_client, triage_agent, specialized_agents, init_pc, base_agent>>

\* handoff_to_agent, lines 348-372, with BaseAgent.process, lines 81-88:
\* neither llm_client nor triage_agent is tested.  The call ends in ValueError
\* or in the RuntimeError of an agent without its ChatAgent, or is suspended
\* at ChatAgent.run.
HandoffToAgent(name) ==
    /\ init_pc # "running"
    /\ Len(call_log) + Len(in_flight) < MaxRuns
    /\ LET r == HandoffBody(name, triage_agent, specialized_agents)
           init == llm_client /\ triage_agent = "ready"
       IN IF r.llm
            THEN /\ llm_calls' = llm_calls + 1
                 /\ in_flight' = Append(in_flight,
                       Suspended("handoff_to_agent", init, "llm", TRUE, 0, NoError))
                 /\ UNCHANGED call_log
            ELSE /\ call_log' = Append(call_log,
                       LogEntry("handoff_to_agent", init, r.outcome, FALSE, 0))
                 /\ UNCHANGED <<llm_calls, in_flight>>
    /\ UNCHANGED <<toolVars, streamVars, triageVars, loadVars, pairVars>>
    /\ UNCHANGED <<llm_client, triage_agent, specialized_agents, init_pc, base_agent>>

\* process_request_stream, lines 264-271: the first pull of the generator: the
\* guard raises, or AgentSetup is yielded.
ProcessRequestStreamStart ==
    /\ init_pc # "running"
    /\ Len(call_log) + Len(in_flight) < MaxRuns
    /\ LET init == llm_client /\ triage_agent = "ready"
       IN IF WorkflowNotInitialized(llm_client, triage_agent)
            THEN /\ call_log' = Append(call_log,
                       LogEntry("process_request_stream", init, "RuntimeError", FALSE, 0))
                 /\ UNCHANGED in_flight
            ELSE /\ in_flight' = Append(in_flight,
                       Suspended("process_request_stream", init, "AgentSetup",
                                 FALSE, 1, NoError))
                 /\ UNCHANGED call_log
    /\ UNCHANGED <<toolVars, streamVars, triageVars, loadVars, pairVars>>
    /\ UNCHANGED <<llm_client, triage_agent, specialized_agents, init_pc, base_agent,
                   llm_calls>>

\* process_request_stream, lines 298-318: the chunking loop of the suspended
\* stream c from offset i to its next yield: an AgentStream event while the
\* offset is inside the answer, the AgentComplete event after the last chunk.
StreamChunkLoop(c, i) ==
    IF i < c.result
      THEN [c EXCEPT !.pos = "AgentStream", !.events = @ + 1,
                     !.chunk_i = i + chunk_size]
      ELSE [c EXCEPT !.pos = "AgentComplete", !.events = @ + 1]

\* process_request_stream, lines 271-332: the consumer pulls the next item of
\* the i-th suspended call, a stream.  After AgentSetup comes AgentToolCall;
\* then the triage agent is called, and it either awaits ChatAgent.run or
\* raises at once, which yields the Error event; after an AgentStream comes
\* the next iteration of the chunking loop; after AgentComplete the generator
\* ends; after the Error event the exception is raised again.
StreamPull(i) ==
    /\ i \in 1..Len(in_flight)
    /\ in_flight[i].op = "process_request_stream"
    /\ in_flight[i].pos # "llm"
    /\ LET c == in_flight[i]
           r == TriageProcessCall(triage_agent)
       IN CASE c.pos = "AgentSetup" ->
                 /\ in_flight' = [in_flight EXCEPT ![i].pos = "AgentToolCall",
                                                   ![i].events = 2]
                 /\ UNCHANGED <<call_log, llm_calls>>
            [] c.pos = "AgentToolCall" /\ r.llm ->
                 /\ in_flight' = [in_flight EXCEPT ![i].pos = "llm", ![i].llm = TRUE]
                 /\ llm_calls' = llm_calls + 1
                 /\ UNCHANGED call_log
            [] c.pos = "AgentToolCall" /\ ~r.llm ->
                 /\ in_flight' = [in_flight EXCEPT ![i].pos = "Error",
                                                   ![i].events = 3,
                                                   ![i].exc = r.outcome]
                 /\ UNCHANGED <<call_log, llm_calls>>
            [] c.pos = "AgentStream" ->
                 /\ in_flight' = [in_flight EXCEPT ![i] = StreamChunkLoop(c, c.chunk_i)]
                 /\ UNCHANGED <<call_log, llm_calls>>
            [] c.pos = "AgentComplete" ->
                 /\ in_flight' = RemoveAt(in_flight, i)
                 /\ call_log' = Append(call_log,
                       LogEntry(c.op, c.init, "returned", c.llm, c.events))
                 /\ UNCHANGED llm_calls
            [] c.pos = "Error" ->
                 /\ in_flight' = RemoveAt(in_flight, i)
                 /\ call_log' = Append(call_log,
                       LogEntry(c.op, c.init, c.exc, c.llm, c.events))
                 /\ UNCHANGED llm_calls
    /\ UNCHANGED <<toolVars, streamVars, triageVars, loadVars, pairVars>>
    /\ UNCHANGED <<llm_client, triage_agent, specialized_agents, init_pc, base_agent>>

\* The consumer of the i-th suspended call, a stream, stops iterating and
\* closes the generator at the yield where it stands: GeneratorExit is not
\* an Exception (line 320), nothing more is yielded.
StreamClose(i) ==
    /\ i \in 1..Len(in_flight)
    /\ in_flight[i].op = "process_request_stream"
    /\ in_flight[i].pos # "llm"
    /\ in_flight' = RemoveAt(in_flight, i)
    /\ call_log' = Append(call_log,
          LogEntry(in_flight[i].op, in_flight[i].init, "closed", in_flight[i].llm,
                   in_flight[i].events))
    /\ UNCHANGED <<toolVars, streamVars, triageVars, loadVars, pairVars>>
    /\ UNCHANGED <<llm_client, triage_agent, specialized_agents, init_pc, base_agent,
                   llm_calls>>

\* BaseAgent.process, lines 88-94: ChatAgent.run of the i-th suspended call
\* returns an answer of n characters, raises, or the call is cancelled while
\* it waits.  process, handoff_to_agent and process_request return the answer
\* or let the exception out (process_request, lines 238-240); the stream goes
\* on to the chunks of the answer (line 298) or to the Error event (line 324).
\* CancelledError is not an Exception: no handler catches it, the stream ends
\* with it and yields no Error event.
LlmAnswers(i, exc, n) ==
    /\ i \in 1..Len(in_flight)
    /\ in_flight[i].pos = "llm"
    /\ LET c == in_flight[i]
       IN IF c.op = "process_request_stream" /\ IsException(exc)
            THEN /\ in_flight' =
                      [in_flight EXCEPT
                         ![i] = IF exc = NoError
                                  THEN StreamChunkLoop([c EXCEPT !.result = n], 0)
                                  ELSE [c EXCEPT !.pos = "Error", !.events = @ + 1,
                                                 !.exc = exc]]
                 /\ UNCHANGED call_log
            ELSE /\ in_flight' = RemoveAt(in_flight, i)
                 /\ call_log' = Append(call_log,
                       LogEntry(c.op, c.init,
                                IF exc = NoError THEN "returned" ELSE exc,
                                c.llm, c.events))
    /\ UNCHANGED <<toolVars, streamVars, triageVars, loadVars, pairVars>>
    /\ UNCHANGED <<llm_client, triage_agent, specialized_agents, init_pc, base_agent,
                   llm_calls>>

\* BaseAgent.process, lines 81-88, on the agent of its own: the guard raises,
\* or the call is suspended at ChatAgent.run.
AgentProcessStart ==
    /\ Len(call_log) + Len(in_flight) < MaxRuns
    /\ LET r == AgentProcessBody(base_agent)
       IN IF r.llm
            THEN /\ llm_calls' = llm_calls + 1
                 /\ in_flight' = Append(in_flight,
                       Suspended("process", base_agent, "llm", TRUE, 0, NoError))
                 /\ UNCHANGED call_log
            ELSE /\ call_log' = Append(call_log,
                       LogEntry("process", base_agent, r.outcome, FALSE, 0))
                 /\ UNCHANGED <<llm_calls, in_flight>>
    /\ UNCHANGED <<toolVars, streamVars, triageVars, loadVars, pairVars>>
    /\ UNCHANGED <<llm_client, triage_agent, specialized_agents, init_pc, base_agent>>

----------------------------------------------------------------------------
(* Specifications *)

ToolsIdle ==
    /\ server_metadata = Servers
    /\ lt_pc = "idle"
    /\ lt_tasks = << >>
    /\ task_st = [s \in Servers |-> "none"]
    /\ task_cancel = [s \in Servers |-> FALSE]
    /\ task_exc = [s \in Servers |-> NoError]
    /\ mcp_tool = [s \in Servers |-> "unset"]
    /\ server_info = [s \in Servers |-> InitialServerInfo(s)]
    /\ deadline = "unarmed"
    /\ lt_result = << >>
    /\ lt_exc = NoError

StreamIdle ==
    /\ chat_client = FALSE
    /\ wf_i = 0
    /\ wf_task = "none"
    /\ event_queue = << >>
    /\ workflow_done = FALSE
    /\ workflow_error = NoError
    /\ gen_pc = "unstarted"
    /\ out = << >>
    /\ chat_pc = "idle"
    /\ sse = << >>
    /\ chunk_i = 0

LoadIdle ==
    /\ load_pc = "idle"
    /\ load_i = 1
    /\ load_run = 0
    /\ load_cancel = 0
    /\ loader_tools = [s \in Servers |-> << >>]
    /\ tools_by_server = EmptyDict
    /\ all_tools = << >>
    /\ init_results = << >>
    /\ load_exc = NoError

PairIdle ==
    /\ pair_op = "none"
    /\ lt_calls = [c \in Calls |-> LtCallIdle]
    /\ st_calls = [c \in Calls |-> StCallIdle("complete")]

CallIdle ==
    /\ llm_client = FALSE
    /\ triage_agent = "None"
    /\ specialized_agents = NoAgents
    /\ init_pc = "new"
    /\ base_agent = FALSE
    /\ llm_calls = 0
    /\ call_log = << >>
    /\ in_flight = << >>

InitTools ==
    /\ PairIdle
    /\ CallIdle
    /\ ToolsIdle
    /\ behav \in [Servers -> Behaviours]
    /\ LoadIdle
    /\ enabled_tools = ConfigOrder
    /\ refusal = "ConnectionError"
    /\ StreamIdle
    /\ api = "packages"
    /\ wf_script = << >>
    /\ wf_end = "complete"
    /\ result = << >>

InitStream ==
    /\ PairIdle
    /\ CallIdle
    /\ ToolsIdle
    /\ behav = [s \in Servers |-> "ok"]
    /\ LoadIdle
    /\ enabled_tools = ConfigOrder
    /\ refusal = "ConnectionError"
    /\ StreamIdle
    /\ \/ /\ api = "packages"
          /\ wf_script \in Scripts
          /\ wf_end \in Endings
          /\ result = << >>
       \/ /\ api = "src"
          /\ wf_script = << >>
          /\ wf_end \in {"complete", "raise"}
          /\ result \in Results

NextTools ==
    \/ ListToolsStart
    \/ \E s \in Servers : ProbeStart(s)
    \/ \E s \in Servers : ProbeConnected(s)
    \/ \E s \in Servers : ProbeClosed(s)
    \/ \E s \in Servers : ProbeCancelled(s)
    \/ DeadlineFires
    \/ ListToolsGathered
    \/ ListToolsTimeout
    \/ ListToolsAfterTimeout
    \/ CloseAll

SpecTools == InitTools /\ [][NextTools]_vars

\* Scheduling of the event loop for list_tools: the coroutine of list_tools and
\* the delivery of a requested cancellation always get their turn; nothing is
\* assumed about when (or whether) a remote server answers, nor about the timer.
FairSpecTools ==
    /\ SpecTools
    /\ WF_vars(ListToolsGathered)
    /\ WF_vars(ListToolsTimeout)
    /\ WF_vars(ListToolsAfterTimeout)
    /\ \A s \in Servers : WF_vars(ProbeCancelled(s))

NextStream ==
    \/ Initialize
    \/ ChatStart
    \/ GenStart
    \/ RunWorkflowStart
    \/ OnEvent
    \/ RunStreamEvent
    \/ RunWorkflowEnd
    \/ GenGet
    \/ GenResume
    \/ GenTimeout
    \/ GenAfterTimeout
    \/ GenDrainResume
    \/ GenErrorResume
    \/ \E exc \in {"GeneratorExit", "CancelledError"} : ClientDisconnect(exc)
    \/ GenAclose
    \/ ChatComplete
    \/ ChatError
    \/ WorkflowInitialize
    \/ TriageStart
    \/ TriageToolCall
    \/ TriageProcess
    \/ TriageProcessed
    \/ TriageChunkResume
    \/ TriageCompleteResume
    \/ TriageErrorResume
    \/ TriageDisconnect
    \/ TriageAclose

SpecStream == InitStream /\ [][NextStream]_vars

\* The Magentic chat stream with, in addition, a shutdown of the application
\* that cancels the background workflow task.
InitProducer == InitStream /\ api = "packages"

NextProducer ==
    \/ Initialize
    \/ ChatStart
    \/ GenStart
    \/ RunWorkflowStart
    \/ OnEvent
    \/ RunStreamEvent
    \/ RunWorkflowEnd
    \/ WorkflowTaskCancelled
    \/ GenGet
    \/ GenResume
    \/ GenTimeout
    \/ GenAfterTimeout
    \/ GenDrainResume
    \/ GenErrorResume
    \/ \E exc \in {"GeneratorExit", "CancelledError"} : ClientDisconnect(exc)
    \/ GenAclose
    \/ ChatComplete
    \/ ChatError
    \/ ChatCancelled

SpecProducer == InitProducer /\ [][NextProducer]_vars

\* Scheduling of the event loop for a chat stream whose consumer keeps
\* iterating: the generator, its timer, the consumer's next pull and the task
\* that closes an abandoned generator always get their turn; nothing is
\* assumed about the pace of the workflow.
FairSpecStream ==
    /\ SpecStream
    /\ WF_vars(GenGet)
    /\ WF_vars(GenResume)
    /\ WF_vars(GenTimeout)
    /\ WF_vars(GenAfterTimeout)
    /\ WF_vars(GenDrainResume)
    /\ WF_vars(GenErrorResume)
    /\ WF_vars(GenAclose)

\* The tool-loading loop of initialize alone, for every request list, every
\* behaviour of the servers and every class of refusal.
InitLoad ==
    /\ PairIdle
    /\ CallIdle
    /\ ToolsIdle
    /\ behav \in [Servers -> Behaviours]
    /\ LoadIdle
    /\ enabled_tools \in RequestLists
    /\ refusal \in RefusalClasses
    /\ StreamIdle
    /\ api = "src"
    /\ wf_script = << >>
    /\ wf_end = "complete"
    /\ result = << >>

NextLoad ==
    \/ InitializeStart
    \/ LoadNext
    \/ GetToolsConnected
    \/ GetToolsClosed
    \/ InitializeTimeout

SpecLoad == InitLoad /\ [][NextLoad]_vars

\* The life of the application: initialize at startup, then the requests for
\* the tool report, then close_all at shutdown.
InitDiscovery ==
    /\ PairIdle
    /\ CallIdle
    /\ ToolsIdle
    /\ behav \in [Servers -> Behaviours]
    /\ LoadIdle
    /\ enabled_tools = DefaultEnabledTools
    /\ refusal = "ConnectionError"
    /\ StreamIdle
    /\ api = "src"
    /\ wf_script = << >>
    /\ wf_end = "complete"
    /\ result = << >>

NextDiscovery == NextLoad \/ NextTools

SpecDiscovery == InitDiscovery /\ [][NextDiscovery]_vars

\* Two invocations of the same operation on one registry / orchestrator,
\* interleaved in every way the event loop allows.  For discovery each server
\* answers or hangs; for streaming each workflow completes or raises.
InitPair ==
    /\ CallIdle
    /\ ToolsIdle
    /\ LoadIdle
    /\ enabled_tools = ConfigOrder
    /\ refusal = "ConnectionError"
    /\ StreamIdle
    /\ api = "packages"
    /\ wf_script = << >>
    /\ wf_end = "complete"
    /\ result = << >>
    /\ \/ /\ pair_op = "list_tools"
          /\ behav \in [Servers -> {"ok", "hang"}]
          /\ st_calls = [c \in Calls |-> StCallIdle("complete")]
       \/ /\ pair_op = "stream"
          /\ behav = [s \in Servers |-> "ok"]
          /\ st_calls \in {[c \in Calls |-> StCallIdle(e[c])] :
                              e \in [Calls -> {"complete", "raise"}]}
    /\ lt_calls = [c \in Calls |-> LtCallIdle]

NextPair ==
    \/ Initialize
    \/ \E c \in Calls : PairListToolsStart(c)
    \/ \E c \in Calls, s \in Servers : PairProbeStart(c, s)
    \/ \E c \in Calls, s \in Servers : PairProbeConnected(c, s)
    \/ \E c \in Calls, s \in Servers : PairProbeClosed(c, s)
    \/ \E c \in Calls, s \in Servers : PairProbeCancelled(c, s)
    \/ \E c \in Calls : PairDeadlineFires(c)
    \/ \E c \in Calls : PairListToolsGathered(c)
    \/ \E c \in Calls : PairListToolsTimeout(c)
    \/ \E c \in Calls : PairListToolsAfterTimeout(c)
    \/ \E c \in Calls : PairGenStart(c)
    \/ \E c \in Calls : PairRunWorkflowStart(c)
    \/ \E c \in Calls : PairEmit(c)
    \/ \E c \in Calls : PairRunWorkflowEnd(c)
    \/ \E c \in Calls : PairGenGet(c)
    \/ \E c \in Calls : PairGenResume(c)
    \/ \E c \in Calls : PairGenTimeout(c)
    \/ \E c \in Calls : PairGenDrain(c)
    \/ \E c \in Calls : PairGenWaitAgain(c)
    \/ \E c \in Calls, exc \in {"GeneratorExit", "CancelledError"} : PairStop(c, exc)

SpecPair == InitPair /\ [][NextPair]_vars

\* Calls on the orchestrator and on an agent, before, without and after the
\* startup's initialization, complete or not.
InitCalls ==
    /\ PairIdle
    /\ CallIdle
    /\ ToolsIdle
    /\ behav = [s \in Servers |-> "ok"]
    /\ LoadIdle
    /\ enabled_tools = ConfigOrder
    /\ refusal = "ConnectionError"
    /\ StreamIdle
    /\ api = "src"
    /\ wf_script = << >>
    /\ wf_end = "complete"
    /\ result = << >>

NextCalls ==
    \/ StartupInitialize
    \/ StartupGetLlmClient
    \/ StartupCreateAgent
    \/ StartupInitAgent
    \/ StartupCreateTriage
    \/ StartupInitTriage
    \/ StartupFails
    \/ AgentInitialize
    \/ ProcessRequestStart
    \/ ProcessRequestStreamStart
    \/ \E name \in HandoffNames : HandoffToAgent(name)
    \/ \E i \in 1..MaxRuns : StreamPull(i)
    \/ \E i \in 1..MaxRuns : StreamClose(i)
    \/ \E i \in 1..MaxRuns, exc \in {NoError, "Exception", "CancelledError"},
          n \in ResultLengths : LlmAnswers(i, exc, n)
    \/ AgentProcessStart

SpecCalls == InitCalls /\ [][NextCalls]_vars

----------------------------------------------------------------------------
(* Claims about ToolRegistry.list_tools *)

\* The call to list_tools is over: it returned its report or raised.
LtEnded == lt_pc \in {"returned", "raised"}

\* The ids of the entries of the returned 'tools' list, in order.
ResultIds == [i \in 1..Len(lt_result) |-> lt_result[i].value.id]

\* C1: once a call to list_tools is over, the returned 'tools' list holds
\* exactly one entry for every server the registry held at the call, also when
\* the overall deadline fired (a probe unfinished at the deadline appears as an
\* unreachable entry, never as a missing one).
C1_OneEntryPerServer ==
    LtEnded =>
        /\ ResultIds = lt_tasks
        /\ \A i \in 1..Len(lt_result) :
              task_st[lt_result[i].value.id] = "cancelled"
                  => ~lt_result[i].value.reachable

\* C2: list_tools never raises to its caller, whatever the probes do, and when
\* the deadline fired the results of the probes that had completed are returned.
C2_NeverRaises ==
    /\ lt_pc # "raised"
    /\ lt_exc = NoError
    /\ LtEnded => \A s \in Servers :
          task_st[s] = "done" => \E i \in 1..Len(lt_result) : lt_result[i].value.id = s

\* C7: probe isolation: the entry reported for a server whose probe completed
\* is present and is the outcome of that server's own probe, whatever the
\* probes of the other servers did (succeeded, failed, raised or hung past the
\* deadline).
C7_ProbeIsolation ==
    LtEnded => \A s \in Servers :
        task_st[s] = "done" =>
            \E i \in 1..Len(lt_result) :
                /\ lt_result[i].value.id = s
                /\ lt_result[i].value = server_info[s]

\* Once the deadline has fired the call ends (it waits only for the
\* cancellation it requested to be delivered) without any server having to
\* answer, however slow it is; so does a call whose probes have all resolved.
EndsByDeadline ==
    /\ (deadline = "fired") ~> LtEnded
    /\ (lt_pc = "waiting" /\ GatherDone(lt_tasks, task_st)) ~> LtEnded

\* The deadline fired on a server that never answers, and the call is over
\* with that probe cancelled while still connecting.
DeadlineFiredOnHang ==
    /\ LtEnded
    /\ deadline = "fired"
    /\ \E s \in Servers : behav[s] = "hang" /\ task_st[s] = "cancelled"

\* C9: list_tools returns as soon as all probes have resolved or the overall
\* deadline has fired, whichever is first: a call that is over after its
\* deadline fired has returned its report, however slow a server is.
C9_ReturnsByDeadline ==
    (LtEnded /\ deadline = "fired") => lt_pc = "returned"

\* C10: when the call to list_tools is over, no probe task it launched is still
\* running: every one of them has finished or has been cancelled.
C10_NoProbeLeftRunning ==
    LtEnded => \A s \in Servers : task_st[s] \in {"none", "done", "cancelled"}

\* C10 witness: the call ended after the deadline fired, with one probe
\* finished and another one cancelled before it finished.
C10_Witness ==
    /\ LtEnded
    /\ deadline = "fired"
    /\ \E s, u \in Servers :
          /\ task_st[s] = "cancelled" /\ task_cancel[s]
          /\ task_st[u] = "done"

\* Every registered server was probed over the network and its probe ran to
\* its end before the deadline cut it: it refused the connection or answered.
AllProbesAnswered ==
    /\ Len(lt_tasks) = Cardinality(Servers)
    /\ \A s \in Servers : mcp_tool[s] = "tool" /\ task_st[s] = "done"

\* C11: if K of the N registered servers refuse the connection and the other
\* N-K respond in time, list_tools returns exactly N entries, one per server,
\* in which exactly the K refusing servers have reachable = false and exactly
\* the N-K responding ones have reachable = true.
C11_RefusedAndResponding ==
    (LtEnded /\ AllProbesAnswered) =>
        /\ lt_pc = "returned"
        /\ ResultIds = ConfigOrder
        /\ \A i \in 1..Len(lt_result) :
              lt_result[i].value.reachable <=> behav[lt_result[i].value.id] # "refuse"
        /\ Cardinality({i \in 1..Len(lt_result) : ~lt_result[i].value.reachable})
              = Cardinality({s \in Servers : behav[s] = "refuse"})

\* C11 witness: a returned report over two servers, one that refused and one
\* that answered.
C11_Witness ==
    /\ lt_pc = "returned"
    /\ AllProbesAnswered
    /\ Len(lt_result) = Cardinality(Servers)
    /\ \E s, u \in Servers : behav[s] = "refuse" /\ behav[u] = "ok"

\* C13: every failure inside a probe is folded into its result as an error
\* with reachable = false: no entry of a list_tools report carries an error
\* while reporting reachable = true, whether the failure happened while
\* connecting, while reading the catalog or while closing the connection.
C13_ErrorMeansUnreachable ==
    \A i \in 1..Len(lt_result) :
        lt_result[i].value.error # NoError => ~lt_result[i].value.reachable

\* C14: the registry's set of server ids and each server's metadata never
\* change after construction: whatever operation has run (close_all, the
\* orchestrator's cleanup, which calls it), get_server_metadata returns for
\* every id what it returned at construction, and a list_tools request
\* probes the same servers as one served before that operation.
C14_RegistryNeverChanges ==
    /\ \A s \in Servers :
          GetServerMetadata(s, server_metadata) = ServerMetadata(s)
    /\ lt_pc # "idle" => lt_tasks = ConfigOrder

\* C20: resolving an id the registry does not hold attempts no connection and
\* yields an unreachable result carrying an UnknownServer error:
\* create_mcp_tool gives no tool, and the probe's entry has reachable = false,
\* an empty tools list and an error that identifies the unknown server.
C20_UnknownServerError ==
    \A s \in Servers :
        /\ s \notin server_metadata => CreateMcpTool(s, server_metadata) = "None"
        /\ mcp_tool[s] = "None" =>
              /\ task_st[s] = "done"
              /\ ~server_info[s].reachable
              /\ server_info[s].tools = << >>
              /\ server_info[s].error = "UnknownServer"

----------------------------------------------------------------------------
(* Claims about the tool-loading loop of initialize and MCPToolLoader *)

\* The servers whose get_tools fails whenever it is tried.
LoadFails(s) == behav[s] \in {"refuse", "closefail", "hang"}

\* C12: no tool of a server marked unreachable is exposed: every list_tools
\* entry with reachable = false has an empty tools list, and the aggregated
\* list handed to the agents (all_tools) holds no tool of a server whose
\* get_tools failed.
C12_NoToolOfUnreachable ==
    /\ \A i \in 1..Len(lt_result) :
          ~lt_result[i].value.reachable => lt_result[i].value.tools = << >>
    /\ \A j \in 1..Len(all_tools) : ~LoadFails(all_tools[j].server)

\* C12 witness: the startup's initialize ended with tools of one server in
\* all_tools while another requested server failed after its catalog had been
\* read, and list_tools then returned an entry marked unreachable.
C12_Witness ==
    /\ load_pc = "raised"
    /\ load_i > Len(enabled_tools)
    /\ all_tools # << >>
    /\ \E s \in DOMAIN tools_by_server :
          behav[s] = "closefail" /\ loader_tools[s] # << >>
    /\ lt_pc = "returned"
    /\ \E i \in 1..Len(lt_result) : ~lt_result[i].value.reachable

\* What iteration i of the loop of the first call of initialize obtains: the
\* functions of a configured server that answers, unless the startup timer cut
\* that very call; nothing for an unknown id or a failed server.
Returned(i) ==
    LET s == enabled_tools[i] IN
    IF InConfig(s) /\ ~LoadFails(s) /\ load_cancel # i
      THEN Functions(s, behav[s]) ELSE << >>

\* C16: MCPToolLoader.get_tools never raises: whatever fails while it connects
\* to or reads from the server (ConnectionError, OSError, TimeoutError, any
\* other Exception, a cancellation), it returns an empty list, and it returns
\* the server's functions only when the connection succeeded.  Every call that
\* has ended in the current run of initialize left its list in tools_by_server,
\* and initialize is never left from inside the loop.
C16_GetToolsNeverRaises ==
    /\ load_pc = "raised" => load_i > Len(enabled_tools)
    /\ \A i \in 1..Len(enabled_tools) :
          (i < load_i /\ InConfig(enabled_tools[i])) =>
              enabled_tools[i] \in DOMAIN tools_by_server
    /\ \A s \in DOMAIN tools_by_server :
          /\ LoadFails(s) => tools_by_server[s] = << >>
          /\ tools_by_server[s] # << >> =>
                /\ behav[s] \in {"ok", "badtool"}
                /\ tools_by_server[s] = Functions(s, behav[s])
          /\ (~LoadFails(s) /\ load_cancel = 0) =>
                tools_by_server[s] = Functions(s, behav[s])

\* C16 witness: in one run get_tools returned the functions of a server that
\* answered and an empty list for a server whose connection raised a plain
\* Exception.
C16_Witness ==
    /\ load_pc = "done"
    /\ refusal = "RuntimeError"
    /\ \E s, u \in DOMAIN tools_by_server :
          /\ behav[s] = "refuse" /\ tools_by_server[s] = << >>
          /\ behav[u] = "ok" /\ tools_by_server[u] # << >>

\* The concatenation of Returned(1), ..., Returned(n).
RECURSIVE ConcatReturned(_)
ConcatReturned(n) ==
    IF n = 0 THEN << >> ELSE ConcatReturned(n - 1) \o Returned(n)

\* C17: the aggregated tool list an orchestrator builds from a list of server
\* ids is the concatenation of the catalogs of the servers that loaded, in the
\* order the ids were requested and in catalog order within a server; an
\* unknown or failed server contributes nothing and does not keep the servers
\* after it from being loaded.  (Stated for the call of initialize on the
\* orchestrator as constructed; C18 is about a second call.)
C17_AggregateInRequestOrder ==
    load_run = 1 =>
        /\ load_pc \in {"loop", "connecting", "closing"} =>
              all_tools = ConcatReturned(load_i - 1)
        /\ load_pc \in {"done", "raised"} =>
              all_tools = ConcatReturned(Len(enabled_tools))

\* C17 witness: the first requested server failed, an unknown id followed, and
\* the server requested last was still loaded, with its tool.
C17_Witness ==
    /\ load_run = 1
    /\ load_pc = "done"
    /\ Len(enabled_tools) = 3
    /\ LoadFails(enabled_tools[1])
    /\ enabled_tools[2] = UnknownId
    /\ Len(all_tools) = 1
    /\ all_tools[1].server = enabled_tools[3]

\* C18: discovery is idempotent absent remote changes: a second call of
\* initialize against servers whose catalogs are unchanged (and with no call
\* cut by the startup timer) leaves per-server tool sequences and an
\* aggregated tool list identical to those of the first call.
C18_DiscoveryIdempotent ==
    load_cancel = 0 =>
        \A k \in 1..Len(init_results) :
            /\ init_results[k].tools_by_server = init_results[1].tools_by_server
            /\ init_results[k].all_tools = init_results[1].all_tools

----------------------------------------------------------------------------
(* Claims about the event bridge and the chat stream *)

\* The UI events of the first n events the workflow emits, in emission order.
RECURSIVE ConvertedUpTo(_)
ConvertedUpTo(n) ==
    IF n = 0 THEN << >> ELSE PutConverted(ConvertedUpTo(n - 1), wf_script[n])

\* The UI (non-error) events the generator has yielded so far.
YieldedUi == SelectSeq(out, LAMBDA e : e.type = "metadata")

IsPrefix(s, u) == Len(s) <= Len(u) /\ s = SubSeq(u, 1, Len(s))

\* An envelope that reports an error / that reports completion to the client.
IsErrorEnvelope(e) == e.errorStatus # Absent \/ e.event \in {"Error", "error"}

IsCompleteEnvelope(e) == e.event \in {"Complete", "AgentComplete"}

IsTerminalEnvelope(e) == IsErrorEnvelope(e) \/ IsCompleteEnvelope(e)

\* The workflow producer raised while serving this chat request.
ProducerRaised ==
    \/ api = "packages" /\ workflow_error # NoError
    \/ api = "src" /\ wf_end = "raise" /\ gen_pc = "raised" /\ chat_client

\* The workflow of this request failed while being built or run.
WorkflowFailed ==
    \/ api = "packages" /\ wf_end \in {"raise", "service", "buildfail", "servicebuild"}
    \/ api = "src" /\ wf_end = "raise"

\* An Error event as process_request_stream yields it.
IsErrorEvent(e) == IF api = "packages" THEN e.type = "error" ELSE e.event = "Error"

\* C15: no workflow-level failure leaves the streaming operation as an
\* exception: for every failure raised while the workflow is built or run,
\* process_request_stream yields an Error event and then ends normally; the
\* only exception it raises is the one for an orchestrator not initialized.
C15_FaultsEndNormally ==
    /\ gen_pc = "raised" => ~chat_client
    /\ (gen_pc = "ended" /\ WorkflowFailed) =>
          /\ out # << >>
          /\ IsErrorEvent(out[Len(out)])

\* C3: if the consumer of process_request_stream stops before the workflow has
\* finished, the background workflow task is cancelled: in no state has the
\* consumer stopped while the workflow task is still running.
C3_StopCancelsWorkflow ==
    (api = "packages" /\ gen_pc = "closed") => wf_task # "running"

\* C4: if the workflow producer raises after emitting e1..ek, the client of
\* the chat stream has received, when the response is over, e1..ek in emission
\* order followed by exactly one Error envelope, and no Complete envelope.
C4_FaultEndsWithOneError ==
    (chat_pc = "done" /\ ProducerRaised) =>
        /\ Len(SelectSeq(sse, IsErrorEnvelope)) = 1
        /\ IsErrorEnvelope(sse[Len(sse)])
        /\ \A i \in 1..Len(sse) : ~IsCompleteEnvelope(sse[i])
        /\ api = "packages" =>
             SubSeq(sse, 2, Len(sse) - 1)
               = [i \in 1..Len(ConvertedUpTo(wf_i)) |->
                    WrapInternalEvent(ConvertedUpTo(wf_i)[i])]

\* C5: every chat stream holds at most one terminal envelope (Complete or
\* Error), nothing follows it, and a finished response holds exactly one.
C5_OneTerminalEnvelope ==
    /\ \A i \in 1..Len(sse) : IsTerminalEnvelope(sse[i]) => i = Len(sse)
    /\ chat_pc = "done" => Len(SelectSeq(sse, IsTerminalEnvelope)) = 1

\* C6: the consumer of process_request_stream receives the events that convert
\* to a UI event exactly once and in emission order, whether they were queued
\* by the on_event callback or by the run_stream loop: what it has received is
\* always a prefix of what was emitted, and all of it once the stream ended.
C6_ExactlyOnceInOrder ==
    api = "packages" =>
        /\ IsPrefix(YieldedUi, ConvertedUpTo(wf_i))
        /\ (gen_pc = "ended" /\ wf_task = "done") =>
              YieldedUi = ConvertedUpTo(Len(wf_script))

\* C6 witness: a stream that ended after delivering two UI events, one queued
\* by the callback and one by the run_stream loop.
C6_Witness ==
    /\ api = "packages"
    /\ gen_pc = "ended"
    /\ Len(YieldedUi) = 2
    /\ \E i, j \in 1..Len(wf_script) :
         /\ wf_script[i].via = "callback" /\ wf_script[i].cls = "MagenticAgentDeltaEvent"
         /\ wf_script[j].via = "stream" /\ wf_script[j].cls = "WorkflowOutputEvent"

\* C8: once the workflow producer has finished, normally or through a fault,
\* the consumer of process_request_stream eventually reaches the end of the
\* stream (or has stopped by itself): it is never left waiting on the queue.
C8_StreamEnds ==
    (api = "packages" /\ wf_task = "done") ~> (gen_pc \in {"ended", "closed"})

\* C8 witness: the workflow raised after an event, and the consumer, having
\* received the event and the error, reached the end of the stream.
C8_Witness ==
    /\ api = "packages"
    /\ wf_task = "done"
    /\ workflow_error # NoError
    /\ gen_pc = "ended"
    /\ Len(out) >= 2

----------------------------------------------------------------------------
(* Claims about two concurrent invocations *)

\* The UI events of the first n events of the workflow of invocation c.
PairConvertedUpTo(c, n) == [k \in 1..n |-> ConvertWorkflowEvent(PairScript(c)[k])]

\* The UI (non-error) events the consumer of invocation c has received.
PairYieldedUi(c) == SelectSeq(st_calls[c].out, LAMBDA e : e.type = "metadata")

\* The dictionary a probe of s that ran to completion on its own leaves.
CompletedInfo(s) ==
    [InitialServerInfo(s) EXCEPT !.reachable = TRUE,
                                 !.tools = ConvertTools(LoadedTools(s, behav[s])).tools]

\* C19: two concurrent invocations of list_tools, or of
\* process_request_stream, share no mutable state.  Every entry of a
\* list_tools report was written by a probe of that call, a call that returned
\* holds the report it would have built alone, and the probes of a call are
\* cancelled, and the call raises, only after its own deadline fired.  Every
\* event a consumer received was emitted by its own workflow, what it received
\* is a prefix of what its own workflow emitted, and a stream ends only after
\* its own workflow finished, having delivered all of its events (and an Error
\* event exactly when its own workflow raised).
C19_NoSharedState ==
    \A c \in Calls :
        LET l == lt_calls[c]
            g == st_calls[c]
        IN
        /\ \A i \in 1..Len(l.result) : l.result[i].by = c
        /\ l.pc = "returned" =>
              l.result = [i \in 1..Len(ConfigOrder) |->
                            [kind |-> "dict", value |-> CompletedInfo(ConfigOrder[i]),
                             by |-> c]]
        /\ l.pc \in {"cancelling", "raised"} => l.deadline = "fired"
        /\ \A s \in Servers :
              (l.task_cancel[s] \/ l.task_st[s] = "cancelled") => l.deadline = "fired"
        /\ \A i \in 1..Len(g.out) :
              g.out[i].type = "metadata" => Owner(g.out[i].id) = c
        /\ IsPrefix(PairYieldedUi(c), PairConvertedUpTo(c, g.wf_i))
        /\ g.gen_pc = "ended" =>
              /\ g.wf_task = "done"
              /\ PairYieldedUi(c) = PairConvertedUpTo(c, MaxEvents)
              /\ (\E i \in 1..Len(g.out) : g.out[i].type = "error") <=> g.wf_end = "raise"

\* C19 witness: of two concurrent streams, one was stopped by its consumer
\* after a first event while the other ran to its end, delivering every event
\* of its own workflow and the Error event of that workflow's fault.
C19_Witness ==
    /\ pair_op = "stream"
    /\ st_calls[1].gen_pc = "closed"
    /\ Len(st_calls[1].out) = 1
    /\ st_calls[2].gen_pc = "ended"
    /\ st_calls[2].wf_end = "raise"
    /\ Len(PairYieldedUi(2)) = MaxEvents
    /\ Len(st_calls[2].out) = MaxEvents + 1

\* Two concurrent discovery calls: the deadline of one fired and its call
\* raised, while the other returned a report on every server.
PairDiscoveryReached ==
    /\ pair_op = "list_tools"
    /\ lt_calls[1].pc = "raised"
    /\ lt_calls[2].pc = "returned"
    /\ Len(lt_calls[2].result) = MaxServers

----------------------------------------------------------------------------
(* Claims about the error vocabulary *)

\* The kinds of error the specification names.
ErrorKinds ==
    {"UnknownServer", "ConnectionFailed", "Timeout", "MalformedResponse", "WorkflowFault"}

\* C21: every error surfaced by discovery (the error of a probe entry) and by
\* streaming (the error event an error envelope wraps) carries a kind from
\* the closed set ErrorKinds; a refused connection is reported as
\* ConnectionFailed.
C21_ClosedErrorVocabulary ==
    /\ \A s \in Servers :
          /\ server_info[s].error \in ErrorKinds \cup {NoError}
          /\ (behav[s] = "refuse" /\ task_st[s] = "done" /\ mcp_tool[s] = "tool")
                => server_info[s].error = "ConnectionFailed"
    /\ \A i \in 1..Len(sse) :
          sse[i].errorStatus # Absent => sse[i].inner \in ErrorKinds

----------------------------------------------------------------------------
(* Claims about calls on objects that are not initialized *)

\* The attributes initialization sets.
Attributes == <<llm_client, triage_agent, specialized_agents, base_agent>>

\* The operations that test for initialization: process_request and
\* process_request_stream (the orchestrator's guard) and process (the
\* agent's).  handoff_to_agent has no guard of the orchestrator: it reaches
\* the process of the agent it finds.
GuardedOps == {"process_request", "process_request_stream", "process"}

\* C22: a call of process_request or process_request_stream on an
\* orchestrator, or of process on an agent, whose initialization has not
\* completed raises RuntimeError without any call of ChatAgent.run (unless the
\* consumer of a stream abandons it before), and leaves the object as it was:
\* such a call is never suspended at the LLM, no step of any call assigns an
\* attribute, and the count of LLM calls grows only in a step that suspends
\* at the LLM a call made on an initialized object, or a handoff to an agent
\* that has its ChatAgent.
C22_UninitializedRaises ==
    /\ [](/\ \A i \in 1..Len(call_log) :
                (call_log[i].op \in GuardedOps /\ ~call_log[i].init) =>
                    /\ call_log[i].outcome \in {"RuntimeError", "closed"}
                    /\ ~call_log[i].llm
          /\ \A i \in 1..Len(in_flight) :
                (in_flight[i].op \in GuardedOps /\ ~in_flight[i].init) =>
                    in_flight[i].pos # "llm" /\ ~in_flight[i].llm)
    /\ [][/\ (call_log' # call_log \/ in_flight' # in_flight) => Attributes' = Attributes
          /\ llm_calls' # llm_calls =>
                \E i \in 1..Len(in_flight') :
                    /\ in_flight'[i].pos = "llm"
                    /\ \/ in_flight'[i].init
                       \/ /\ in_flight'[i].op = "handoff_to_agent"
                          /\ \E a \in SpecializedAttrs \cup {"triage_agent"} :
                                AgentAttr(a, triage_agent, specialized_agents) = "ready"]_vars

\* A stream run to its end on an initialized orchestrator yields the events
\* of ProcessRequestStreamBody for one of the answers.
StreamRunToItsEnd ==
    \A i \in 1..Len(call_log) :
        (call_log[i].op = "process_request_stream" /\ call_log[i].outcome = "returned") =>
            call_log[i].events \in
                {ProcessRequestStreamBody(TRUE, "ready", n).events : n \in ResultLengths}

\* A call cancelled while ChatAgent.run is awaited ends with CancelledError
\* and, for a stream, after its two first events: no Error event is yielded.
CancelledAtLlm ==
    \A i \in 1..Len(call_log) :
        call_log[i].outcome = "CancelledError" =>
            /\ call_log[i].llm
            /\ call_log[i].events =
                  IF call_log[i].op = "process_request_stream" THEN 2 ELSE 0

\* handoff_to_agent on an orchestrator whose initialization stopped after the
\* EchoAgent was built reaches ChatAgent.run and returns.
HandoffReachesLlmUninitialized ==
    \E i \in 1..Len(call_log) :
        /\ call_log[i] = LogEntry("handoff_to_agent", FALSE, "returned", TRUE, 0)
        /\ llm_client /\ triage_agent = "None" /\ specialized_agents["echo_agent"] = "ready"

\* C22 witness: a stream was requested from an orchestrator whose startup
\* failed after the LLM client was obtained, and process was called on an
\* agent never initialized; both calls raised RuntimeError, and no LLM call
\* was made.
C22_Witness ==
    /\ init_pc = "over" /\ llm_client /\ triage_agent = "None" /\ ~base_agent
    /\ Len(call_log) = 2
    /\ call_log[1].op = "process_request_stream" /\ call_log[1].outcome = "RuntimeError"
    /\ call_log[2].op = "process" /\ call_log[2].outcome = "RuntimeError"
    /\ llm_calls = 0

----------------------------------------------------------------------------
(* Claims about the records of the chat stream *)

\* A value that is a string: not a missing key, not null, not a nested object.
IsString(v) == v \notin {Absent, "null", "<event>", "dict"}

\* The StreamEnvelope shape: type "metadata", the keys agent (a string or
\* null), event (a string) and data.
IsStreamEnvelope(e) ==
    /\ e.type = "metadata"
    /\ e.agent # Absent
    /\ IsString(e.event)
    /\ e.data # Absent

\* C23: every record emitted on the chat stream, the start, error and
\* completion records included, is a StreamEnvelope: its type is "metadata"
\* and it has the fields agent, event and data, with event a string.
C23_EveryRecordIsEnvelope ==
    \A i \in 1..Len(sse) : IsStreamEnvelope(sse[i])

\* The records of the src/ chat stream and the forwarded workflow events of
\* the packages/ one do have the shape.
ConformingRecords ==
    \A i \in 1..Len(sse) :
        (api = "src" \/ (sse[i].errorStatus = Absent /\ sse[i].event # "WorkflowStarted"))
            => IsStreamEnvelope(sse[i])

----------------------------------------------------------------------------
(* Claims about the producer side of the event queue *)

\* The background task of this invocation is over: it returned (normally or
\* after an exception) or was cancelled.
ProducerOver == wf_task \in {"done", "cancelled"}

\* The consumer has taken the completion signal off the queue.
SentinelTaken == gen_pc \in {"ended", "cancelled"}

\* C24: the background task of a process_request_stream invocation writes
\* exactly one completion sentinel, on normal completion, on exception and on
\* cancellation alike, and it is the last item written: while the task runs
\* the queue holds no sentinel; once the task is over the queue ends with the
\* one sentinel until the consumer takes it; and nothing is put on the queue
\* after the task is over.
C24_OneSentinelLast ==
    /\ [](/\ \A i \in 1..Len(event_queue) :
                event_queue[i] = None => i = Len(event_queue)
          /\ wf_task \in {"none", "created", "running"} =>
                /\ ~workflow_done
                /\ \A i \in 1..Len(event_queue) : event_queue[i] # None
          /\ ProducerOver =>
                /\ workflow_done
                /\ \/ SentinelTaken /\ event_queue = << >>
                   \/ event_queue # << >> /\ event_queue[Len(event_queue)] = None)
    /\ [][ProducerOver => Len(event_queue') <= Len(event_queue)]_vars

\* What does hold: never more than one sentinel, and nothing after it.  While
\* the finally block has not run the queue holds no sentinel; once it has run
\* the queue ends with the one sentinel until the consumer takes it, and
\* nothing is put on the queue any more.
AtMostOneSentinelLast ==
    /\ [](/\ \A i \in 1..Len(event_queue) :
                event_queue[i] = None => i = Len(event_queue)
          /\ ~workflow_done => \A i \in 1..Len(event_queue) : event_queue[i] # None
          /\ workflow_done =>
                /\ ProducerOver
                /\ \/ SentinelTaken /\ event_queue = << >>
                   \/ event_queue # << >> /\ event_queue[Len(event_queue)] = None)
    /\ [][workflow_done => Len(event_queue') <= Len(event_queue)]_vars

\* The workflow task was cancelled after it had queued an event, and the
\* queue holds that event followed by the sentinel.
CancelledAfterEvent ==
    /\ wf_task = "cancelled"
    /\ Len(event_queue) = 2
    /\ event_queue[1] # None
    /\ event_queue[2] = None

\* The workflow task was cancelled before its first step: it is over, no
\* sentinel was written, and the generator goes on waiting.
CancelledBeforeStart ==
    /\ wf_task = "cancelled"
    /\ ~workflow_done
    /\ event_queue = << >>
    /\ gen_pc = "timedout"

\* C25: the event queue between the workflow producer and the consumer is
\* bounded: in every reachable state the number of queued items is at most a
\* fixed capacity, the producer waiting for the consumer when the queue is
\* full.  Stated for the capacity MaxEvents, which the longest run of the
\* model, MaxEvents events and the sentinel, exceeds when no put ever waits.
C25_QueueBounded == Len(event_queue) <= MaxEvents

----------------------------------------------------------------------------
(* Claims about the tools list of a probe entry *)

\* The complete catalog of a server as the connection reported it, in
\* server-reported order, in the entry's format.
CompleteCatalog(s) ==
    LET loaded == LoadedTools(s, behav[s])
    IN [i \in 1..Len(loaded) |-> ToolInfo(loaded[i])]

\* A tools list that is empty or the complete catalog of s.
EmptyOrComplete(tools, s) == tools = << >> \/ tools = CompleteCatalog(s)

----------------------------------------------------------------------------
(* Claims about the timeouts of discovery *)

\* create_mcp_tool, line 109: the request timeout of each probe's MCP tool,
\* in seconds.
request_timeout == 30

\* list_tools, line 206: the timeout of the wait_for around the probes, in
\* seconds.
list_tools_timeout == 10

\* C27: each probe launched by list_tools runs with a per-call timeout that is
\* no greater than the overall deadline of the discovery call, so that a slow
\* server reaches its own timeout before the overall deadline does: no probe
\* of a server that does not answer is ended by the overall deadline.
C27_PerCallTimeoutWithinDeadline ==
    /\ request_timeout <= list_tools_timeout
    /\ \A s \in Servers : behav[s] = "hang" => task_st[s] # "cancelled"

\* The second part alone: it fails once the deadline has cancelled the probe
\* of a server that hangs.
HangingProbeNotCancelled ==
    \A s \in Servers : behav[s] = "hang" => task_st[s] # "cancelled"

----------------------------------------------------------------------------
(* Claims about cancelling the initialization *)

\* C28: cancelling the orchestrator's initialization, as the startup timeout
\* does, stops it: once the cancellation has been delivered while the tools
\* of one server are being loaded, no later server of the list is contacted,
\* and initialize does not run to its normal end (the startup wait ends with
\* the timeout outcome).
C28_CancelStopsInitialization ==
    (load_run = 1 /\ load_cancel # 0) =>
        /\ ~(load_pc \in {"connecting", "closing"} /\ load_i > load_cancel)
        /\ load_pc # "done"

\* The first part alone: no server is contacted after the cancellation.
NoContactAfterCancel ==
    (load_run = 1 /\ load_cancel # 0) =>
        ~(load_pc \in {"connecting", "closing"} /\ load_i > load_cancel)

----------------------------------------------------------------------------
(* Claims about the chunking of the triage answer *)

\* The delta payloads of the AgentStream events yielded so far, in order.
Deltas ==
    LET ev == SelectSeq(out, LAMBDA e : e.event = "AgentStream")
    IN [i \in 1..Len(ev) |-> ev[i].delta]

\* The concatenation of a sequence of strings.
RECURSIVE Concat(_)
Concat(ss) == IF ss = << >> THEN << >> ELSE Head(ss) \o Concat(Tail(ss))

\* C29: in TravelWorkflowOrchestrator.process_request_stream, for every result
\* string the concatenation of the delta payloads of the AgentStream events,
\* in emission order, equals the result (and is a prefix of it while the
\* stream runs); every delta is non-empty and at most 50 characters long, an
\* empty result yields no AgentStream event, and the AgentComplete event
\* follows the last delta and carries the whole result.
C29_ChunksRebuildResult ==
    api = "src" =>
        /\ \A i \in 1..Len(Deltas) :
              Deltas[i] # << >> /\ Len(Deltas[i]) <= chunk_size
        /\ IsPrefix(Concat(Deltas), result)
        /\ result = << >> => Deltas = << >>
        /\ \A i \in 1..Len(out) :
              out[i].event = "AgentComplete" =>
                  /\ i = Len(out)
                  /\ out[i].delta = result
                  /\ Concat(Deltas) = result

\* C29 witness: an answer one character longer than a chunk was streamed as
\* a full chunk and a chunk of one character, and AgentComplete followed.
C29_Witness ==
    /\ api = "src"
    /\ gen_pc = "tw_complete"
    /\ Len(result) = chunk_size + 1
    /\ Len(Deltas) = 2
    /\ Len(Deltas[1]) = chunk_size
    /\ Len(Deltas[2]) = 1
    /\ out[Len(out)].event = "AgentComplete"

----------------------------------------------------------------------------
(* Claims about the report of a service failure *)

\* The record reports a timeout or an unavailable service: status 504 and
\* the message of that case.
IsServiceUnavailableRecord(e) ==
    e.errorStatus = "504" /\ e.errorMessage = ServiceUnavailable

\* C30: a ServiceResponseException raised by the workflow is reported to the
\* chat client with status code 504 and the 'timed out or service
\* unavailable' message, whether it was caught inside the background task or
\* at the level of the generator, and never as the generic 500 error (on an
\* initialized orchestrator: a workflow was started).
C30_ServiceErrorIs504 ==
    (api = "packages" /\ chat_client /\ wf_end \in {"service", "servicebuild"}) =>
        \A i \in 1..Len(sse) :
            sse[i].errorStatus # Absent => IsServiceUnavailableRecord(sse[i])

\* The generator-level path alone reports 504 with the message.
OuterServiceErrorIs504 ==
    (api = "packages" /\ chat_client /\ wf_end = "servicebuild") =>
        \A i \in 1..Len(sse) :
            sse[i].errorStatus # Absent => IsServiceUnavailableRecord(sse[i])

\* The generator-level path was taken: its record is on the stream.
OuterServiceErrorSent ==
    /\ wf_end = "servicebuild"
    /\ \E i \in 1..Len(sse) : IsServiceUnavailableRecord(sse[i])

====
